---------------------------- MODULE Spec2Model ----------------------------
(***************************************************************************)
(* Robust geometric predicates (predicates.h): the floating-point          *)
(* expansion arithmetic, the exact evaluators and the staged adaptive      *)
(* evaluators, over a small IEEE-754 style binary format.                  *)
(*                                                                         *)
(* The template parameter T is instantiated with a binary format of        *)
(* Digits significand bits, round-to-nearest-even, gradual underflow       *)
(* (every finite value is a multiple of 2^-DenormExp) and signed zeros.    *)
(* A value of T is a pair <<m, e>> standing for m * 2^e with m odd, or     *)
(* <<0, 0>> for +0 and <<0, 1>> for -0.  The inputs stay far below the     *)
(* overflow threshold, so no infinity or NaN is ever produced.             *)
(***************************************************************************)
EXTENDS Integers, Sequences, FiniteSets, TLC

VARIABLES
  use_fma,   \* use_fma<T>::value of the build
  K,         \* the static storage: Constants<T>::* and ExpansionBase<T>::Splitter
  initd,     \* the static members whose dynamic initialiser has run
  pred,      \* the predicate being called
  pts,       \* its arguments pa, pb, ... (each a tuple of coordinates)
  pc,        \* the position of the call
  loc,       \* the locals of the call that later stages read
  ret,       \* the value returned
  hist,      \* what earlier calls returned, per argument tuple
  stale      \* what an earlier call left in the memory of a new local

vars == <<use_fma, K, initd, pred, pts, pc, loc, ret, hist, stale>>

\* std::numeric_limits<T>::digits of the modelled format
Digits == 6

\* std::numeric_limits<T>::denorm_min() is 2^-DenormExp
DenormExp == 40

--------------------------------------------------------------------------
(* Integer helpers *)

Pow2(n) == 2^n

IAbs(n) == IF n < 0 THEN -n ELSE n

IMax(a, b) == IF a < b THEN b ELSE a

IMin(a, b) == IF a < b THEN a ELSE b

ISign(n) == IF n > 0 THEN 1 ELSE IF n < 0 THEN -1 ELSE 0

\* the number of bits of n >= 0
BitLen(n) == IF n >= Pow2(30) THEN 31 ELSE CHOOSE k \in 0..30 : n < Pow2(k)

--------------------------------------------------------------------------
(* The arithmetic of T *)

PZero == <<0, 0>>

NZero == <<0, 1>>

IsZero(x) == x[1] = 0

\* std::signbit
SignBit(x) == IF x[1] = 0 THEN x[2] = 1 ELSE x[1] < 0

\* unary minus
Neg(x) == IF x[1] = 0 THEN <<0, 1 - x[2]>> ELSE <<-x[1], x[2]>>

\* std::abs
Abs(x) == IF x[1] = 0 THEN PZero ELSE IF x[1] < 0 THEN <<-x[1], x[2]>> ELSE x

\* the sign of a value of T as -1, 0, 1
Sign(x) == ISign(x[1])

\* the pair <<m, e'>> with m odd that stands for M * 2^e (M # 0)
Norm(M, e) ==
  LET k == CHOOSE k \in 0..30 : M % Pow2(k + 1) # 0
  IN  <<M \div Pow2(k), e + k>>

\* M * 2^e (M # 0) rounded to the nearest value of T, ties to even
Round(M, e) ==
  LET n  == IAbs(M)
      bl == BitLen(n)
      s  == IMax(IMax(bl - Digits, (-DenormExp) - e), 0)
      sg == IF M < 0 THEN NZero ELSE PZero
  IN  IF s = 0 THEN Norm(M, e)
      ELSE IF s > bl THEN sg
      ELSE LET q    == n \div Pow2(s)
               r    == n % Pow2(s)
               half == Pow2(s - 1)
               up   == r > half \/ (r = half /\ q % 2 = 1)
               q1   == IF up THEN q + 1 ELSE q
           IN  IF q1 = 0 THEN sg
               ELSE Norm(IF M < 0 THEN -q1 ELSE q1, e + s)

\* x + y
Add(x, y) ==
  IF x[1] = 0 /\ y[1] = 0 THEN (IF x[2] = 1 /\ y[2] = 1 THEN NZero ELSE PZero)
  ELSE IF x[1] = 0 THEN y
  ELSE IF y[1] = 0 THEN x
  ELSE IF x[2] - y[2] >= 2 * Digits + 2 THEN x
  ELSE IF y[2] - x[2] >= 2 * Digits + 2 THEN y
  ELSE LET e == IMin(x[2], y[2])
           M == x[1] * Pow2(x[2] - e) + y[1] * Pow2(y[2] - e)
       IN  IF M = 0 THEN PZero ELSE Round(M, e)

\* x - y
Sub(x, y) == Add(x, Neg(y))

\* x * y
Mul(x, y) ==
  IF x[1] = 0 \/ y[1] = 0
  THEN (IF SignBit(x) # SignBit(y) THEN NZero ELSE PZero)
  ELSE Round(x[1] * y[1], x[2] + y[2])

\* std::fma(a, b, c): a * b + c with a single rounding
Fma(a, b, c) ==
  IF a[1] = 0 \/ b[1] = 0 THEN Add(Mul(a, b), c)
  ELSE LET Mp == a[1] * b[1]
           ep == a[2] + b[2]
           d  == c[2] - ep
       IN  IF c[1] = 0 THEN Round(Mp, ep)
           ELSE IF d >= 0
                THEN (IF d > 3 * Digits + 1 THEN c
                      ELSE LET M == Mp + c[1] * Pow2(d)
                           IN  IF M = 0 THEN PZero ELSE Round(M, ep))
                ELSE (IF (-d) <= 2 * Digits + 1
                      THEN LET M == Mp * Pow2(-d) + c[1]
                           IN  IF M = 0 THEN PZero ELSE Round(M, c[2])
                      ELSE Round(Mp * Pow2(Digits + 2) + ISign(c[1]),
                                 ep - Digits - 2))

\* x < y
Lt(x, y) ==
  IF x[1] = 0 THEN y[1] > 0
  ELSE IF y[1] = 0 THEN x[1] < 0
  ELSE IF (x[1] < 0) # (y[1] < 0) THEN x[1] < 0
  ELSE LET tx == x[2] + BitLen(IAbs(x[1]))
           ty == y[2] + BitLen(IAbs(y[1]))
           e  == IMin(x[2], y[2])
       IN  IF tx # ty THEN (IF x[1] < 0 THEN tx > ty ELSE tx < ty)
           ELSE x[1] * Pow2(x[2] - e) < y[1] * Pow2(y[2] - e)

\* x >= y
Ge(x, y) == ~Lt(x, y)

\* x * 2^k, exact while the result stays normal
Ldexp(x, k) == IF x[1] = 0 THEN x ELSE <<x[1], x[2] + k>>

\* T(n): the conversion of the integer n
FromInt(n) == IF n = 0 THEN PZero ELSE Round(n, 0)

--------------------------------------------------------------------------
(* Calls.  Call(f, a) is the value of the function (or block) f of the     *)
(* header applied to the arguments a; every call of the model, and every   *)
(* rounded operation of T inside a function body, goes through it.         *)

RECURSIVE Call(_, _)

\* the statements of a body run in order: the values s[1], s[2], ... are
\* evaluated one after the other, and the last is the value of the body
InOrder(s) == s[Len(s)]

\* the expressions x + y, x - y, x * y and std::fma(a, b, c) of type T
add(x, y) == Call("+", <<x, y>>)

sub(x, y) == Call("-", <<x, y>>)

mul(x, y) == Call("*", <<x, y>>)

fma(a, b, c) == Call("fma", <<a, b, c>>)

--------------------------------------------------------------------------
(* ExpansionBase<T>: the error-free transformations *)

\* the roundoff error of x = a + b computed as if |a| >= |b|
PlusTailOrdered(a, b, x) == sub(b, sub(x, a))

\* roundoff error of x = a + b
PlusTail(a, b, x) ==
  LET bVirtual  == sub(x, a)
      aVirtual  == sub(x, bVirtual)
      bRoundoff == sub(b, bVirtual)
      aRoundoff == sub(a, aVirtual)
  IN  InOrder(<<bVirtual, aVirtual, bRoundoff, aRoundoff,
                add(aRoundoff, bRoundoff)>>)

\* roundoff error of x = a + b if |a| > |b|
FastPlusTail(a, b, x) ==
  LET bVirtual == sub(x, a)
  IN  sub(b, bVirtual)

\* roundoff error of x = a - b
MinusTail(a, b, x) ==
  LET bVirtual  == sub(a, x)
      aVirtual  == add(x, bVirtual)
      bRoundoff == sub(bVirtual, b)
      aRoundoff == sub(a, aVirtual)
  IN  InOrder(<<bVirtual, aVirtual, bRoundoff, aRoundoff,
                add(aRoundoff, bRoundoff)>>)

\* split a into 2 nonoverlapping values <<aHi, aLo>>
Split(a) ==
  LET c    == mul(K.Splitter, a)
      aBig == sub(c, a)
      aHi  == sub(c, aBig)
  IN  InOrder(<<c, aBig, aHi,
                <<aHi, sub(a, aHi)>>>>)

\* dekkers product without the product of the two low parts
DekkersProductNoLow(a, aSplit, b, bSplit, p) ==
  LET y1 == sub(p, mul(aSplit[1], bSplit[1]))
      y2 == sub(y1, mul(aSplit[2], bSplit[1]))
      y3 == sub(y2, mul(aSplit[1], bSplit[2]))
  IN  InOrder(<<y1, y2, y3, Neg(y3)>>)

\* roundoff error of p = a * b via dekkers product
DekkersProduct(a, aSplit, b, bSplit, p) ==
  LET y1 == sub(p, mul(aSplit[1], bSplit[1]))
      y2 == sub(y1, mul(aSplit[2], bSplit[1]))
      y3 == sub(y2, mul(aSplit[1], bSplit[2]))
  IN  InOrder(<<y1, y2, y3,
                sub(mul(aSplit[2], bSplit[2]), y3)>>)

\* a product taken for exact: no roundoff error
MultTailDropped(a, b, p) == PZero

\* roundoff error of p = a * b
MultTail(a, b, p) ==
  IF use_fma THEN fma(a, b, Neg(p))
  ELSE Call("DekkersProduct", <<a, Call("Split", <<a>>), b, Call("Split", <<b>>), p>>)

\* a product by the presplit b taken for exact
MultTailPreSplitDropped(a, b, bSplit, p) == PZero

\* roundoff error of p = a * b, with b already split
MultTailPreSplit(a, b, bSplit, p) ==
  IF use_fma THEN fma(a, b, Neg(p))
  ELSE Call("DekkersProduct", <<a, Call("Split", <<a>>), b, bSplit, p>>)

\* result and roundoff error stored whether zero or not
MakeExpansionUnchecked(value, tail) == <<tail, value>>

\* combine result + roundoff error into expansion
MakeExpansion(value, tail) ==
  (IF IsZero(tail) THEN <<>> ELSE <<tail>>) \o
  (IF IsZero(value) THEN <<>> ELSE <<value>>)

\* expand a + b
Plus(a, b) ==
  LET x == add(a, b)
  IN  MakeExpansion(x, Call("PlusTail", <<a, b, x>>))

\* expand a - b
Minus(a, b) == Call("Plus", <<a, Neg(b)>>)

\* expand a * b
Mult(a, b) ==
  LET x == mul(a, b)
  IN  MakeExpansion(x, Call("MultTail", <<a, b, x>>))

\* expand the determinant of {{ax, ay}, {bx, by}}
TwoTwoDiff(ax, by, ay, bx) ==
  LET axby1 == mul(ax, by)
      axby0 == Call("MultTail", <<ax, by, axby1>>)
      bxay1 == mul(bx, ay)
      bxay0 == Call("MultTail", <<bx, ay, bxay1>>)
      i0    == sub(axby0, bxay0)
      x0    == Call("MinusTail", <<axby0, bxay0, i0>>)
      j     == add(axby1, i0)
      z0    == Call("PlusTail", <<axby1, i0, j>>)
      i1    == sub(z0, bxay1)
      x1    == Call("MinusTail", <<z0, bxay1, i1>>)
      x3    == add(j, i1)
      x2    == Call("PlusTail", <<j, i1, x3>>)
  IN  InOrder(<<axby1, axby0, bxay1, bxay0, i0, x0, j, z0, i1, x1, x3, x2,
                (IF IsZero(x0) THEN <<>> ELSE <<x0>>) \o
                (IF IsZero(x1) THEN <<>> ELSE <<x1>>) \o
                (IF IsZero(x2) THEN <<>> ELSE <<x2>>) \o
                (IF IsZero(x3) THEN <<>> ELSE <<x3>>)>>)

--------------------------------------------------------------------------
(* Expansion<T, N>.  An expansion value is the sequence of its m_size      *)
(* components, least significant first; Stored(e, N) is the std::array it  *)
(* lives in, whose elements from m_size on were never written.             *)

\* the array of an Expansion<T, N> local holding e: stale memory past m_size
Stored(e, N) == e \o [i \in 1..(N - Len(e)) |-> stale]

\* the last element read without the test for an empty expansion
mostSignificantUnchecked(a, n) == a[IMax(n, 1)]

\* T mostSignificant() const, on the array a with m_size n
mostSignificant(a, n) == IF n = 0 THEN PZero ELSE a[n]

\* at most k steps of std::accumulate(a, a + n, T(0)), which adds the
\* components from the left, from the state st on; the steps are taken in
\* two halves, so that the evaluation nests to the depth of log k only
RECURSIVE Accumulate(_, _, _, _)
Accumulate(st, a, n, k) ==
  IF st.i > n THEN st
  ELSE IF k = 1 THEN [acc |-> add(st.acc, a[st.i]), i |-> st.i + 1]
  ELSE Accumulate(Accumulate(st, a, n, k \div 2), a, n, k - (k \div 2))

\* the least significant component in place of the sum
estimateLeast(a, n) == IF n = 0 THEN PZero ELSE a[1]

\* T estimate() const, on the array a with m_size n
estimate(a, n) == Accumulate([acc |-> PZero, i |-> 1], a, n, IMax(n, 1)).acc

\* void negate()
negate(e) == <<>> \o [i \in 1..Len(e) |-> Neg(e[i])]

\* one output of std::merge(e, e + n, f, f + m, h, |a| < |b|): the next of f
\* if it is smaller in magnitude than the next of e, else the next of e
MergeStep(st, e, f) ==
  IF st.i > Len(e) THEN [st EXCEPT !.h = Append(st.h, f[st.j]), !.j = st.j + 1]
  ELSE IF st.j > Len(f) THEN [st EXCEPT !.h = Append(st.h, e[st.i]), !.i = st.i + 1]
  ELSE IF Lt(Abs(f[st.j]), Abs(e[st.i]))
       THEN [st EXCEPT !.h = Append(st.h, f[st.j]), !.j = st.j + 1]
  ELSE [st EXCEPT !.h = Append(st.h, e[st.i]), !.i = st.i + 1]

\* at most k outputs of std::merge from the state st on, in two halves
RECURSIVE MergeLoop(_, _, _, _)
MergeLoop(st, e, f, k) ==
  IF st.i > Len(e) /\ st.j > Len(f) THEN st
  ELSE IF k = 1 THEN MergeStep(st, e, f)
  ELSE MergeLoop(MergeLoop(st, e, f, k \div 2), e, f, k - (k \div 2))

\* the two ranges one after the other, not merged by magnitude
MergeAppended(e, f) == e \o f

\* std::merge(e, e + n, f, f + m, h, |a| < |b|)
Merge(e, f) ==
  MergeLoop([h |-> <<>>, i |-> 1, j |-> 1], e, f, IMax(Len(e) + Len(f), 1)).h

\* a store that leaves a free slot after the component stored
EmitWide(st, hh) ==
  IF IsZero(hh) THEN st
  ELSE [st EXCEPT !.h = [st.h EXCEPT ![st.hIndex + 1] = hh],
                  !.hIndex = st.hIndex + 2]

\* if(T(0) != hh) h[hIndex++] = hh
Emit(st, hh) ==
  IF IsZero(hh) THEN st
  ELSE [st EXCEPT !.h = [st.h EXCEPT ![st.hIndex + 1] = hh],
                  !.hIndex = st.hIndex + 1]

\* ExpansionSum up to its loop: the merge into h and the first two components
SumStart(e, f) ==
  LET h    == Merge(e, f)
      Q    == h[1]
      Qnew == add(h[2], Q)
      hh   == Call("FastPlusTail", <<h[2], Q, Qnew>>)
  IN  InOrder(<<h, Q, Qnew, hh,
                Emit([h |-> h, hIndex |-> 0, Q |-> Qnew, g |-> 2], hh)>>)

\* one iteration of the loop of ExpansionSum, reading h[g] (st.g counts from 0)
SumStep(st) ==
  LET Qnew == add(st.Q, st.h[st.g + 1])
      hh   == Call("PlusTail", <<st.Q, st.h[st.g + 1], Qnew>>)
  IN  InOrder(<<Qnew, hh,
                Emit([st EXCEPT !.Q = Qnew, !.g = st.g + 1], hh)>>)

\* at most k iterations of for(size_t g = 2; g != n + m; ++g), in two halves
RECURSIVE SumLoop(_, _, _)
SumLoop(st, last, k) ==
  IF st.g = last THEN st
  ELSE IF k = 1 THEN SumStep(st)
  ELSE SumLoop(SumLoop(st, last, k \div 2), last, k - (k \div 2))

\* add 2 expansions: the components h[0 .. return value)
ExpansionSum(e, f) ==
  IF Len(f) = 0 THEN e
  ELSE IF Len(e) = 0 THEN f
  ELSE LET last == Len(e) + Len(f)
           st   == SumLoop(SumStart(e, f), last, last)
           fin  == Emit(st, st.Q)
       IN  SubSeq(fin.h, 1, fin.hIndex)

\* ScaleExpansion up to its loop: the product with e[0]
ScaleStart(e, b, bSplit) ==
  LET Q  == mul(e[1], b)
      hh == Call("MultTailPreSplit", <<e[1], b, bSplit, Q>>)
  IN  InOrder(<<Q, hh,
                Emit([h |-> Stored(<<>>, 2 * Len(e)), hIndex |-> 0,
                      Q |-> Q, g |-> 1], hh)>>)

\* one iteration of the loop of ScaleExpansion, for e[eIndex], eIndex = st.g
ScaleStep(st, e, b, bSplit) ==
  LET Ti  == mul(e[st.g + 1], b)
      ti  == Call("MultTailPreSplit", <<e[st.g + 1], b, bSplit, Ti>>)
      Qi  == add(st.Q, ti)
      hh1 == Call("PlusTail", <<st.Q, ti, Qi>>)
      Q   == add(Ti, Qi)
      hh2 == Call("FastPlusTail", <<Ti, Qi, Q>>)
  IN  InOrder(<<Ti, ti, Qi, hh1, Q, hh2,
                Emit([Emit(st, hh1) EXCEPT !.Q = Q, !.g = st.g + 1], hh2)>>)

\* at most k iterations of for(size_t eIndex = 1; eIndex < n; ++eIndex), in
\* two halves
RECURSIVE ScaleLoop(_, _, _, _, _)
ScaleLoop(st, e, b, bSplit, k) ==
  IF st.g >= Len(e) THEN st
  ELSE IF k = 1 THEN ScaleStep(st, e, b, bSplit)
  ELSE ScaleLoop(ScaleLoop(st, e, b, bSplit, k \div 2), e, b, bSplit,
                 k - (k \div 2))

\* scale an expansion by a constant: the components h[0 .. return value)
ScaleExpansion(e, b) ==
  IF Len(e) = 0 \/ IsZero(b) THEN <<>>
  ELSE LET bSplit == Call("Split", <<b>>)
           st     == ScaleLoop(ScaleStart(e, b, bSplit), e, b, bSplit, Len(e))
           fin    == Emit(st, st.Q)
       IN  SubSeq(fin.h, 1, fin.hIndex)

\* Expansion<T, N+M> operator+(const Expansion<T, M>& f) const
operatorPlus(e, f) == Call("ExpansionSum", <<e, f>>)

\* Expansion operator-() const
operatorNeg(e) == negate(e)

\* Expansion<T, N+M> operator-(const Expansion<T, M>& f) const
operatorMinus(e, f) == operatorPlus(e, operatorNeg(f))

\* Expansion<T, 2*N> operator*(const T b) const
operatorTimes(e, b) == Call("ScaleExpansion", <<e, b>>)

\* TwoTwoDiff checking for zeros to avoid extra splitting
TwoTwoDiffZeroCheck(ax, by, ay, bx) ==
  IF IsZero(ax) /\ IsZero(ay) THEN <<>>
  ELSE IF IsZero(ax) THEN Call("Mult", <<ay, bx>>)
  ELSE IF IsZero(ay) THEN Call("Mult", <<ax, by>>)
  ELSE Call("TwoTwoDiff", <<ax, by, ay, bx>>)

\* (a * b) * c checking for zeros
ThreeProd(a, b, c) ==
  IF IsZero(a) \/ IsZero(b) \/ IsZero(c) THEN <<>>
  ELSE operatorTimes(Call("Mult", <<a, b>>), c)

--------------------------------------------------------------------------
(* namespace predicates::exact.  A point is the tuple of its coordinates.  *)

ExactOrient2d(pa, pb, pc_) ==
  LET aterms == Call("TwoTwoDiff", <<pa[1], pb[2], pa[1], pc_[2]>>)
      bterms == Call("TwoTwoDiff", <<pb[1], pc_[2], pb[1], pa[2]>>)
      cterms == Call("TwoTwoDiff", <<pc_[1], pa[2], pc_[1], pb[2]>>)
      w      == operatorPlus(operatorPlus(aterms, bterms), cterms)
  IN  InOrder(<<aterms, bterms, cterms, w,
                mostSignificant(Stored(w, 12), Len(w))>>)

\* m * p[0] * q[0] + m * p[1] * q[1]
Lift2(m, p, q) ==
  operatorPlus(operatorTimes(operatorTimes(m, p[1]), q[1]),
               operatorTimes(operatorTimes(m, p[2]), q[2]))

ExactIncircle(pa, pb, pc_, pd) ==
  LET ab  == Call("TwoTwoDiff", <<pa[1], pb[2], pb[1], pa[2]>>)
      bc  == Call("TwoTwoDiff", <<pb[1], pc_[2], pc_[1], pb[2]>>)
      cd  == Call("TwoTwoDiff", <<pc_[1], pd[2], pd[1], pc_[2]>>)
      da  == Call("TwoTwoDiff", <<pd[1], pa[2], pa[1], pd[2]>>)
      ac  == Call("TwoTwoDiff", <<pa[1], pc_[2], pc_[1], pa[2]>>)
      bd  == Call("TwoTwoDiff", <<pb[1], pd[2], pd[1], pb[2]>>)
      abc == operatorMinus(operatorPlus(ab, bc), ac)
      bcd == operatorMinus(operatorPlus(bc, cd), bd)
      cda == operatorPlus(operatorPlus(cd, da), ac)
      dab == operatorPlus(operatorPlus(da, ab), bd)
      adet == Call("Lift2", <<bcd, pa, pa>>)
      bdet == Call("Lift2", <<cda, pb, <<Neg(pb[1]), Neg(pb[2])>> >>)
      cdet == Call("Lift2", <<dab, pc_, pc_>>)
      ddet == Call("Lift2", <<abc, pd, <<Neg(pd[1]), Neg(pd[2])>> >>)
      deter == operatorPlus(operatorPlus(adet, bdet), operatorPlus(cdet, ddet))
  IN  InOrder(<<ab, bc, cd, da, ac, bd, abc, bcd, cda, dab, adet,
                bdet, cdet, ddet, deter,
                mostSignificant(Stored(deter, 384), Len(deter))>>)

ExactOrient3d(pa, pb, pc_, pd) ==
  LET ab  == Call("TwoTwoDiff", <<pa[1], pb[2], pb[1], pa[2]>>)
      bc  == Call("TwoTwoDiff", <<pb[1], pc_[2], pc_[1], pb[2]>>)
      cd  == Call("TwoTwoDiff", <<pc_[1], pd[2], pd[1], pc_[2]>>)
      da  == Call("TwoTwoDiff", <<pd[1], pa[2], pa[1], pd[2]>>)
      ac  == Call("TwoTwoDiff", <<pa[1], pc_[2], pc_[1], pa[2]>>)
      bd  == Call("TwoTwoDiff", <<pb[1], pd[2], pd[1], pb[2]>>)
      abc == operatorMinus(operatorPlus(ab, bc), ac)
      bcd == operatorMinus(operatorPlus(bc, cd), bd)
      cda == operatorPlus(operatorPlus(cd, da), ac)
      dab == operatorPlus(operatorPlus(da, ab), bd)
      adet == operatorTimes(bcd, pa[3])
      bdet == operatorTimes(cda, Neg(pb[3]))
      cdet == operatorTimes(dab, pc_[3])
      ddet == operatorTimes(abc, Neg(pd[3]))
      deter == operatorPlus(operatorPlus(adet, bdet), operatorPlus(cdet, ddet))
  IN  InOrder(<<ab, bc, cd, da, ac, bd, abc, bcd, cda, dab, adet,
                bdet, cdet, ddet, deter,
                mostSignificant(Stored(deter, 96), Len(deter))>>)

\* x * p + y * q + z * r for expansions x, y, z
Minor3(x, p, y, q, z, r) ==
  operatorPlus(operatorPlus(operatorTimes(x, p), operatorTimes(y, q)),
               operatorTimes(z, r))

\* m * p[0] * q[0] + m * p[1] * q[1] + m * p[2] * q[2]
Lift3(m, p, q) ==
  operatorPlus(
    operatorPlus(operatorTimes(operatorTimes(m, p[1]), q[1]),
                 operatorTimes(operatorTimes(m, p[2]), q[2])),
    operatorTimes(operatorTimes(m, p[3]), q[3]))

ExactInsphere(pa, pb, pc_, pd, pe) ==
  LET ab == Call("TwoTwoDiff", <<pa[1], pb[2], pb[1], pa[2]>>)
      bc == Call("TwoTwoDiff", <<pb[1], pc_[2], pc_[1], pb[2]>>)
      cd == Call("TwoTwoDiff", <<pc_[1], pd[2], pd[1], pc_[2]>>)
      de == Call("TwoTwoDiff", <<pd[1], pe[2], pe[1], pd[2]>>)
      ea == Call("TwoTwoDiff", <<pe[1], pa[2], pa[1], pe[2]>>)
      ac == Call("TwoTwoDiff", <<pa[1], pc_[2], pc_[1], pa[2]>>)
      bd == Call("TwoTwoDiff", <<pb[1], pd[2], pd[1], pb[2]>>)
      ce == Call("TwoTwoDiff", <<pc_[1], pe[2], pe[1], pc_[2]>>)
      da == Call("TwoTwoDiff", <<pd[1], pa[2], pa[1], pd[2]>>)
      eb == Call("TwoTwoDiff", <<pe[1], pb[2], pb[1], pe[2]>>)
      abc == Call("Minor3", <<bc, pa[3], ac, Neg(pb[3]), ab, pc_[3]>>)
      bcd == Call("Minor3", <<cd, pb[3], bd, Neg(pc_[3]), bc, pd[3]>>)
      cde == Call("Minor3", <<de, pc_[3], ce, Neg(pd[3]), cd, pe[3]>>)
      dea == Call("Minor3", <<ea, pd[3], da, Neg(pe[3]), de, pa[3]>>)
      eab == Call("Minor3", <<ab, pe[3], eb, Neg(pa[3]), ea, pb[3]>>)
      abd == Call("Minor3", <<bd, pa[3], da, pb[3], ab, pd[3]>>)
      bce == Call("Minor3", <<ce, pb[3], eb, pc_[3], bc, pe[3]>>)
      cda == Call("Minor3", <<da, pc_[3], ac, pd[3], cd, pa[3]>>)
      deb == Call("Minor3", <<eb, pd[3], bd, pe[3], de, pb[3]>>)
      eac == Call("Minor3", <<ac, pe[3], ce, pa[3], ea, pc_[3]>>)
      bcde == operatorMinus(operatorPlus(cde, bce), operatorPlus(deb, bcd))
      cdea == operatorMinus(operatorPlus(dea, cda), operatorPlus(eac, cde))
      deab == operatorMinus(operatorPlus(eab, deb), operatorPlus(abd, dea))
      eabc == operatorMinus(operatorPlus(abc, eac), operatorPlus(bce, eab))
      abcd == operatorMinus(operatorPlus(bcd, abd), operatorPlus(cda, abc))
      adet == Call("Lift3", <<bcde, pa, pa>>)
      bdet == Call("Lift3", <<cdea, pb, pb>>)
      cdet == Call("Lift3", <<deab, pc_, pc_>>)
      ddet == Call("Lift3", <<eabc, pd, pd>>)
      edet == Call("Lift3", <<abcd, pe, pe>>)
      deter == operatorPlus(operatorPlus(adet, bdet),
                            operatorPlus(operatorPlus(cdet, ddet), edet))
  IN  InOrder(<<ab, bc, cd, de, ea, ac, bd, ce, da, eb, abc, bcd,
                cde, dea, eab, abd, bce, cda, deb, eac, bcde,
                cdea, deab, eabc, abcd, adet, bdet, cdet, ddet,
                edet, deter,
                mostSignificant(Stored(deter, 5760), Len(deter))>>)

--------------------------------------------------------------------------
(* class Constants<T> and ExpansionBase<T>::Splitter: the initialisers *)

\* std::exp2(T(-std::numeric_limits<T>::digits))
EpsilonInit == <<1, -Digits>>

\* (T(a) + T(b) * epsilon) * epsilon, reading the stored epsilon
BoundInit(a, b, eps) == Mul(Add(FromInt(a), Mul(FromInt(b), eps)), eps)

\* (T(a) + T(b) * epsilon) * epsilon * epsilon, reading the stored epsilon
BoundInit2(a, b, eps) == Mul(BoundInit(a, b, eps), eps)

\* std::exp2(T((digits + digits % 2) / 2)) + T(1)
SplitterInit == Add(<<1, (Digits + (Digits % 2)) \div 2>>, FromInt(1))

\* the initialiser of each static member, reading the storage k
StaticInit(name, k) ==
  CASE name = "epsilon"        -> EpsilonInit
    [] name = "resulterrbound" -> BoundInit(3, 8, k.epsilon)
    [] name = "ccwerrboundA"   -> BoundInit(3, 16, k.epsilon)
    [] name = "ccwerrboundB"   -> BoundInit(2, 12, k.epsilon)
    [] name = "ccwerrboundC"   -> BoundInit2(9, 64, k.epsilon)
    [] name = "o3derrboundA"   -> BoundInit(7, 56, k.epsilon)
    [] name = "o3derrboundB"   -> BoundInit(3, 28, k.epsilon)
    [] name = "o3derrboundC"   -> BoundInit2(26, 288, k.epsilon)
    [] name = "iccerrboundA"   -> BoundInit(10, 96, k.epsilon)
    [] name = "iccerrboundB"   -> BoundInit(4, 48, k.epsilon)
    [] name = "iccerrboundC"   -> BoundInit2(44, 576, k.epsilon)
    [] name = "isperrboundA"   -> BoundInit(16, 224, k.epsilon)
    [] name = "isperrboundB"   -> BoundInit(5, 72, k.epsilon)
    [] name = "isperrboundC"   -> BoundInit2(71, 1408, k.epsilon)
    [] name = "Splitter"       -> SplitterInit

StaticNames ==
  {"epsilon", "resulterrbound", "ccwerrboundA", "ccwerrboundB", "ccwerrboundC",
   "o3derrboundA", "o3derrboundB", "o3derrboundC",
   "iccerrboundA", "iccerrboundB", "iccerrboundC",
   "isperrboundA", "isperrboundB", "isperrboundC", "Splitter"}

\* static storage before any dynamic initialiser has run: zero-initialised
ZeroK == [n \in StaticNames |-> PZero]

\* the values the initialisers are written to produce: epsilon first, then
\* every member from that epsilon
FinalK ==
  LET k0 == [ZeroK EXCEPT !.epsilon = EpsilonInit]
  IN  [n \in StaticNames |-> StaticInit(n, k0)]

--------------------------------------------------------------------------
(* namespace predicates::adaptive.  Each evaluator is cut at its return    *)
(* statements into four blocks; a block takes the arguments p and the      *)
(* locals l computed so far, and yields the locals after it: l.done tells  *)
(* whether the block returned, l.det the value returned or carried on.     *)

\* a test that passes whatever the bound: every call then returns the plain
\* floating-point determinant
CertifiedUnchecked(det, errbound) == TRUE

\* a test against the bound plus an absolute term, which does not scale
\* with the coordinates
CertifiedAbsolute(det, errbound) == Ge(Abs(det), Add(Abs(errbound), FromInt(1)))

\* a stage test that never passes
CertifiedNever(det, errbound) == FALSE

\* std::abs(det) >= std::abs(errbound)
Certified(det, errbound) == Ge(Abs(det), Abs(errbound))

\* orient2d: the plain determinant and the first error bound
O2Fast(p, l) ==
  LET acx      == sub(p[1][1], p[3][1])
      bcx      == sub(p[2][1], p[3][1])
      acy      == sub(p[1][2], p[3][2])
      bcy      == sub(p[2][2], p[3][2])
      detleft  == mul(acx, bcy)
      detright == mul(acy, bcx)
      det      == sub(detleft, detright)
      detsum   == Abs(add(detleft, detright))
      errbound == mul(K.ccwerrboundA, detsum)
      early    == SignBit(detleft) # SignBit(detright)
                  \/ IsZero(detleft) \/ IsZero(detright)
  IN  InOrder(<<acx, bcx, acy, bcy, detleft, detright, det,
                detsum, errbound, early,
                [done |-> early \/ Certified(det, errbound), early |-> early, det |-> det,
                 acx |-> acx, bcx |-> bcx, acy |-> acy, bcy |-> bcy, detsum |-> detsum]>>)

\* orient2d: the determinant of the rounded differences as an expansion
O2Expansion(p, l) ==
  LET B        == Call("TwoTwoDiff", <<l.acx, l.bcy, l.acy, l.bcx>>)
      det      == estimate(Stored(B, 4), Len(B))
      errbound == mul(K.ccwerrboundB, l.detsum)
  IN  InOrder(<<B, det, errbound,
                [l EXCEPT !.done = Certified(det, errbound), !.det = det] @@ [B |-> B]>>)

\* orient2d: the tails of the differences and the corrected estimate
O2Tail(p, l) ==
  LET acxtail  == Call("MinusTail", <<p[1][1], p[3][1], l.acx>>)
      bcxtail  == Call("MinusTail", <<p[2][1], p[3][1], l.bcx>>)
      acytail  == Call("MinusTail", <<p[1][2], p[3][2], l.acy>>)
      bcytail  == Call("MinusTail", <<p[2][2], p[3][2], l.bcy>>)
      notail   == IsZero(acxtail) /\ IsZero(bcxtail)
                  /\ IsZero(acytail) /\ IsZero(bcytail)
      errbound == add(mul(K.ccwerrboundC, l.detsum),
                      mul(K.resulterrbound, Abs(l.det)))
      det      == add(l.det,
                      sub(add(mul(l.acx, bcytail), mul(l.bcy, acxtail)),
                          add(mul(l.acy, bcxtail), mul(l.bcx, acytail))))
  IN  InOrder(<<acxtail, bcxtail, acytail, bcytail, notail,
                errbound, det,
                [l EXCEPT !.done = notail \/ Certified(det, errbound),
                          !.det = IF notail THEN l.det ELSE det] @@
                [notail |-> notail, acxtail |-> acxtail, bcxtail |-> bcxtail,
                 acytail |-> acytail, bcytail |-> bcytail]>>)

\* orient2d: the exact determinant of the unrounded differences
O2Exact(p, l) ==
  LET D == operatorPlus(
             operatorPlus(
               operatorPlus(l.B,
                 Call("TwoTwoDiff", <<l.acxtail, l.bcy, l.acytail, l.bcx>>)),
               Call("TwoTwoDiff", <<l.acx, l.bcytail, l.acy, l.bcxtail>>)),
             Call("TwoTwoDiff", <<l.acxtail, l.bcytail, l.acytail, l.bcxtail>>))
  IN  InOrder(<<D,
                [l EXCEPT !.done = TRUE, !.det = mostSignificant(Stored(D, 16), Len(D))]>>)

\* the sum of expansions acc + es[i] + es[i+1] + ..., from the left; st is
\* the partial sum st.acc and the index st.i of the next operand
RECURSIVE SumFrom(_, _)
SumFrom(st, es) ==
  IF st.i > Len(es) THEN st.acc
  ELSE SumFrom([acc |-> operatorPlus(st.acc, es[st.i]), i |-> st.i + 1], es)

SumAll(acc, es, i) == SumFrom([acc |-> acc, i |-> i], es)

\* orient3d: the plain determinant and the first error bound
O3Fast(p, l) ==
  LET adx == sub(p[1][1], p[4][1])
      bdx == sub(p[2][1], p[4][1])
      cdx == sub(p[3][1], p[4][1])
      ady == sub(p[1][2], p[4][2])
      bdy == sub(p[2][2], p[4][2])
      cdy == sub(p[3][2], p[4][2])
      adz == sub(p[1][3], p[4][3])
      bdz == sub(p[2][3], p[4][3])
      cdz == sub(p[3][3], p[4][3])
      bdxcdy == mul(bdx, cdy)
      cdxbdy == mul(cdx, bdy)
      cdxady == mul(cdx, ady)
      adxcdy == mul(adx, cdy)
      adxbdy == mul(adx, bdy)
      bdxady == mul(bdx, ady)
      det == add(add(mul(adz, sub(bdxcdy, cdxbdy)),
                     mul(bdz, sub(cdxady, adxcdy))),
                 mul(cdz, sub(adxbdy, bdxady)))
      permanent ==
        add(add(mul(add(Abs(bdxcdy), Abs(cdxbdy)), Abs(adz)),
                mul(add(Abs(cdxady), Abs(adxcdy)), Abs(bdz))),
            mul(add(Abs(adxbdy), Abs(bdxady)), Abs(cdz)))
      errbound == mul(K.o3derrboundA, permanent)
  IN  InOrder(<<adx, bdx, cdx, ady, bdy, cdy, adz, bdz, cdz,
                bdxcdy, cdxbdy, cdxady, adxcdy, adxbdy, bdxady,
                det, permanent, errbound,
                [done |-> Certified(det, errbound), det |-> det, permanent |-> permanent,
                 adx |-> adx, bdx |-> bdx, cdx |-> cdx, ady |-> ady, bdy |-> bdy,
                 cdy |-> cdy, adz |-> adz, bdz |-> bdz, cdz |-> cdz]>>)

\* orient3d: the determinant of the rounded differences as an expansion
O3Expansion(p, l) ==
  LET bc   == Call("TwoTwoDiff", <<l.bdx, l.cdy, l.cdx, l.bdy>>)
      ca   == Call("TwoTwoDiff", <<l.cdx, l.ady, l.adx, l.cdy>>)
      ab   == Call("TwoTwoDiff", <<l.adx, l.bdy, l.bdx, l.ady>>)
      fin1 == operatorPlus(operatorPlus(operatorTimes(bc, l.adz),
                                        operatorTimes(ca, l.bdz)),
                           operatorTimes(ab, l.cdz))
      det  == estimate(Stored(fin1, 24), Len(fin1))
      errbound == mul(K.o3derrboundB, l.permanent)
  IN  InOrder(<<bc, ca, ab, fin1, det, errbound,
                [l EXCEPT !.done = Certified(det, errbound), !.det = det] @@
                [bc |-> bc, ca |-> ca, ab |-> ab, fin1 |-> fin1]>>)

\* z * ((bx * cytail + cy * bxtail) - (by * cxtail + cx * bytail))
\*   + ztail * (bx * cy - by * cx)
O3TailTerm(z, ztail, bx, by, cx, cy, bxtail, bytail, cxtail, cytail) ==
  add(mul(z, sub(add(mul(bx, cytail), mul(cy, bxtail)),
                 add(mul(by, cxtail), mul(cx, bytail)))),
      mul(ztail, sub(mul(bx, cy), mul(by, cx))))

\* orient3d: the tails of the differences and the corrected estimate
O3Tail(p, l) ==
  LET adxtail == Call("MinusTail", <<p[1][1], p[4][1], l.adx>>)
      bdxtail == Call("MinusTail", <<p[2][1], p[4][1], l.bdx>>)
      cdxtail == Call("MinusTail", <<p[3][1], p[4][1], l.cdx>>)
      adytail == Call("MinusTail", <<p[1][2], p[4][2], l.ady>>)
      bdytail == Call("MinusTail", <<p[2][2], p[4][2], l.bdy>>)
      cdytail == Call("MinusTail", <<p[3][2], p[4][2], l.cdy>>)
      adztail == Call("MinusTail", <<p[1][3], p[4][3], l.adz>>)
      bdztail == Call("MinusTail", <<p[2][3], p[4][3], l.bdz>>)
      cdztail == Call("MinusTail", <<p[3][3], p[4][3], l.cdz>>)
      notail  == IsZero(adxtail) /\ IsZero(adytail) /\ IsZero(adztail)
                 /\ IsZero(bdxtail) /\ IsZero(bdytail) /\ IsZero(bdztail)
                 /\ IsZero(cdxtail) /\ IsZero(cdytail) /\ IsZero(cdztail)
      errbound == add(mul(K.o3derrboundC, l.permanent),
                      mul(K.resulterrbound, Abs(l.det)))
      det == add(l.det,
               add(add(Call("O3TailTerm", <<l.adz, adztail, l.bdx, l.bdy, l.cdx, l.cdy,
                                            bdxtail, bdytail, cdxtail, cdytail>>),
                       Call("O3TailTerm", <<l.bdz, bdztail, l.cdx, l.cdy, l.adx, l.ady,
                                            cdxtail, cdytail, adxtail, adytail>>)),
                   Call("O3TailTerm", <<l.cdz, cdztail, l.adx, l.ady, l.bdx, l.bdy,
                                        adxtail, adytail, bdxtail, bdytail>>)))
  IN  InOrder(<<adxtail, bdxtail, cdxtail, adytail, bdytail,
                cdytail, adztail, bdztail, cdztail, notail,
                errbound, det,
                [l EXCEPT !.done = notail \/ Certified(det, errbound),
                          !.det = IF notail THEN l.det ELSE det] @@
                [notail |-> notail,
                 adxtail |-> adxtail, bdxtail |-> bdxtail, cdxtail |-> cdxtail,
                 adytail |-> adytail, bdytail |-> bdytail, cdytail |-> cdytail,
                 adztail |-> adztail, bdztail |-> bdztail, cdztail |-> cdztail]>>)

\* orient3d: the exact determinant of the unrounded differences
O3Exact(p, l) ==
  LET bct == operatorPlus(
               Call("TwoTwoDiffZeroCheck", <<l.bdxtail, l.cdy, l.bdytail, l.cdx>>),
               Call("TwoTwoDiffZeroCheck", <<l.cdytail, l.bdx, l.cdxtail, l.bdy>>))
      cat == operatorPlus(
               Call("TwoTwoDiffZeroCheck", <<l.cdxtail, l.ady, l.cdytail, l.adx>>),
               Call("TwoTwoDiffZeroCheck", <<l.adytail, l.cdx, l.adxtail, l.cdy>>))
      abt == operatorPlus(
               Call("TwoTwoDiffZeroCheck", <<l.adxtail, l.bdy, l.adytail, l.bdx>>),
               Call("TwoTwoDiffZeroCheck", <<l.bdytail, l.adx, l.bdxtail, l.ady>>))
      fin2 == SumAll(l.fin1,
                <<operatorTimes(bct, l.adz), operatorTimes(cat, l.bdz),
                  operatorTimes(abt, l.cdz),
                  operatorTimes(l.bc, l.adztail), operatorTimes(l.ca, l.bdztail),
                  operatorTimes(l.ab, l.cdztail),
                  Call("ThreeProd", <<l.adxtail, l.bdytail, l.cdz>>),
                  Call("ThreeProd", <<l.adxtail, l.bdytail, l.cdztail>>),
                  Call("ThreeProd", <<Neg(l.adxtail), l.cdytail, l.bdz>>),
                  Call("ThreeProd", <<Neg(l.adxtail), l.cdytail, l.bdztail>>),
                  Call("ThreeProd", <<l.bdxtail, l.cdytail, l.adz>>),
                  Call("ThreeProd", <<l.bdxtail, l.cdytail, l.adztail>>),
                  Call("ThreeProd", <<Neg(l.bdxtail), l.adytail, l.cdz>>),
                  Call("ThreeProd", <<Neg(l.bdxtail), l.adytail, l.cdztail>>),
                  Call("ThreeProd", <<l.cdxtail, l.adytail, l.bdz>>),
                  Call("ThreeProd", <<l.cdxtail, l.adytail, l.bdztail>>),
                  Call("ThreeProd", <<Neg(l.cdxtail), l.bdytail, l.adz>>),
                  Call("ThreeProd", <<Neg(l.cdxtail), l.bdytail, l.adztail>>),
                  operatorTimes(bct, l.adztail), operatorTimes(cat, l.bdztail),
                  operatorTimes(abt, l.cdztail)>>, 1)
  IN  InOrder(<<bct, cat, abt, fin2,
                [l EXCEPT !.done = TRUE,
                          !.det = mostSignificant(Stored(fin2, 192), Len(fin2))]>>)

\* incircle: the plain determinant and the first error bound
ICFast(p, l) ==
  LET adx == sub(p[1][1], p[4][1])
      bdx == sub(p[2][1], p[4][1])
      cdx == sub(p[3][1], p[4][1])
      ady == sub(p[1][2], p[4][2])
      bdy == sub(p[2][2], p[4][2])
      cdy == sub(p[3][2], p[4][2])
      bdxcdy == mul(bdx, cdy)
      cdxbdy == mul(cdx, bdy)
      cdxady == mul(cdx, ady)
      adxcdy == mul(adx, cdy)
      adxbdy == mul(adx, bdy)
      bdxady == mul(bdx, ady)
      alift == add(mul(adx, adx), mul(ady, ady))
      blift == add(mul(bdx, bdx), mul(bdy, bdy))
      clift == add(mul(cdx, cdx), mul(cdy, cdy))
      det == add(add(mul(alift, sub(bdxcdy, cdxbdy)),
                     mul(blift, sub(cdxady, adxcdy))),
                 mul(clift, sub(adxbdy, bdxady)))
      permanent ==
        add(add(mul(add(Abs(bdxcdy), Abs(cdxbdy)), alift),
                mul(add(Abs(cdxady), Abs(adxcdy)), blift)),
            mul(add(Abs(adxbdy), Abs(bdxady)), clift))
      errbound == mul(K.iccerrboundA, permanent)
  IN  InOrder(<<adx, bdx, cdx, ady, bdy, cdy, bdxcdy, cdxbdy,
                cdxady, adxcdy, adxbdy, bdxady, alift, blift,
                clift, det, permanent, errbound,
                [done |-> Certified(det, errbound), det |-> det, permanent |-> permanent,
                 adx |-> adx, bdx |-> bdx, cdx |-> cdx, ady |-> ady, bdy |-> bdy,
                 cdy |-> cdy]>>)

\* incircle: the determinant of the rounded differences as an expansion
ICExpansion(p, l) ==
  LET bc   == Call("TwoTwoDiff", <<l.bdx, l.cdy, l.cdx, l.bdy>>)
      ca   == Call("TwoTwoDiff", <<l.cdx, l.ady, l.adx, l.cdy>>)
      ab   == Call("TwoTwoDiff", <<l.adx, l.bdy, l.bdx, l.ady>>)
      adet == Call("Lift2", <<bc, <<l.adx, l.ady>>, <<l.adx, l.ady>> >>)
      bdet == Call("Lift2", <<ca, <<l.bdx, l.bdy>>, <<l.bdx, l.bdy>> >>)
      cdet == Call("Lift2", <<ab, <<l.cdx, l.cdy>>, <<l.cdx, l.cdy>> >>)
      fin1 == operatorPlus(operatorPlus(adet, bdet), cdet)
      det  == estimate(Stored(fin1, 96), Len(fin1))
      errbound == mul(K.iccerrboundB, l.permanent)
  IN  InOrder(<<bc, ca, ab, adet, bdet, cdet, fin1, det, errbound,
                [l EXCEPT !.done = Certified(det, errbound), !.det = det]>>)

\* (ax * ax + ay * ay) * ((bx * cytail + cy * bxtail) - (by * cxtail + cx * bytail))
\*   + (bx * cy - by * cx) * (ax * axtail + ay * aytail) * T(2)
ICTailTerm(ax, ay, axtail, aytail, bx, by, cx, cy, bxtail, bytail, cxtail, cytail) ==
  add(mul(add(mul(ax, ax), mul(ay, ay)),
          sub(add(mul(bx, cytail), mul(cy, bxtail)),
              add(mul(by, cxtail), mul(cx, bytail)))),
      mul(mul(sub(mul(bx, cy), mul(by, cx)),
              add(mul(ax, axtail), mul(ay, aytail))),
          FromInt(2)))

\* incircle: the tails of the differences and the corrected estimate
ICTail(p, l) ==
  LET adxtail == Call("MinusTail", <<p[1][1], p[4][1], l.adx>>)
      adytail == Call("MinusTail", <<p[1][2], p[4][2], l.ady>>)
      bdxtail == Call("MinusTail", <<p[2][1], p[4][1], l.bdx>>)
      bdytail == Call("MinusTail", <<p[2][2], p[4][2], l.bdy>>)
      cdxtail == Call("MinusTail", <<p[3][1], p[4][1], l.cdx>>)
      cdytail == Call("MinusTail", <<p[3][2], p[4][2], l.cdy>>)
      notail  == IsZero(adxtail) /\ IsZero(bdxtail) /\ IsZero(cdxtail)
                 /\ IsZero(adytail) /\ IsZero(bdytail) /\ IsZero(cdytail)
      errbound == add(mul(K.iccerrboundC, l.permanent),
                      mul(K.resulterrbound, Abs(l.det)))
      det == add(l.det,
               add(add(Call("ICTailTerm", <<l.adx, l.ady, adxtail, adytail,
                                            l.bdx, l.bdy, l.cdx, l.cdy,
                                            bdxtail, bdytail, cdxtail, cdytail>>),
                       Call("ICTailTerm", <<l.bdx, l.bdy, bdxtail, bdytail,
                                            l.cdx, l.cdy, l.adx, l.ady,
                                            cdxtail, cdytail, adxtail, adytail>>)),
                   Call("ICTailTerm", <<l.cdx, l.cdy, cdxtail, cdytail,
                                        l.adx, l.ady, l.bdx, l.bdy,
                                        adxtail, adytail, bdxtail, bdytail>>)))
  IN  InOrder(<<adxtail, adytail, bdxtail, bdytail, cdxtail,
                cdytail, notail, errbound, det,
                [l EXCEPT !.done = notail \/ Certified(det, errbound),
                          !.det = IF notail THEN l.det ELSE det] @@ [notail |-> notail]>>)

\* incircle: return exact::incircle(pa, pb, pc, pd)
ICExact(p, l) ==
  [l EXCEPT !.done = TRUE,
            !.det = Call("ExactIncircle", <<p[1], p[2], p[3], p[4]>>)]

\* insphere: the plain determinant and the first error bound
ISFast(p, l) ==
  LET aex == sub(p[1][1], p[5][1])
      bex == sub(p[2][1], p[5][1])
      cex == sub(p[3][1], p[5][1])
      dex == sub(p[4][1], p[5][1])
      aey == sub(p[1][2], p[5][2])
      bey == sub(p[2][2], p[5][2])
      cey == sub(p[3][2], p[5][2])
      dey == sub(p[4][2], p[5][2])
      aez == sub(p[1][3], p[5][3])
      bez == sub(p[2][3], p[5][3])
      cez == sub(p[3][3], p[5][3])
      dez == sub(p[4][3], p[5][3])
      aexbey == mul(aex, bey)
      bexaey == mul(bex, aey)
      bexcey == mul(bex, cey)
      cexbey == mul(cex, bey)
      cexdey == mul(cex, dey)
      dexcey == mul(dex, cey)
      dexaey == mul(dex, aey)
      aexdey == mul(aex, dey)
      aexcey == mul(aex, cey)
      cexaey == mul(cex, aey)
      bexdey == mul(bex, dey)
      dexbey == mul(dex, bey)
      ab == sub(aexbey, bexaey)
      bc == sub(bexcey, cexbey)
      cd == sub(cexdey, dexcey)
      da == sub(dexaey, aexdey)
      ac == sub(aexcey, cexaey)
      bd == sub(bexdey, dexbey)
      abc == add(sub(mul(aez, bc), mul(bez, ac)), mul(cez, ab))
      bcd == add(sub(mul(bez, cd), mul(cez, bd)), mul(dez, bc))
      cda == add(add(mul(cez, da), mul(dez, ac)), mul(aez, cd))
      dab == add(add(mul(dez, ab), mul(aez, bd)), mul(bez, da))
      alift == add(add(mul(aex, aex), mul(aey, aey)), mul(aez, aez))
      blift == add(add(mul(bex, bex), mul(bey, bey)), mul(bez, bez))
      clift == add(add(mul(cex, cex), mul(cey, cey)), mul(cez, cez))
      dlift == add(add(mul(dex, dex), mul(dey, dey)), mul(dez, dez))
      det == add(sub(mul(dlift, abc), mul(clift, dab)),
                 sub(mul(blift, cda), mul(alift, bcd)))
      \* (|u1| + |u2|) * |w1| + (|u3| + |u4|) * |w2| + (|u5| + |u6|) * |w3|
      Perm(u1, u2, w1, u3, u4, w2, u5, u6, w3) ==
        add(add(mul(add(Abs(u1), Abs(u2)), Abs(w1)),
                mul(add(Abs(u3), Abs(u4)), Abs(w2))),
            mul(add(Abs(u5), Abs(u6)), Abs(w3)))
      permanent ==
        add(add(add(mul(Perm(cexdey, dexcey, bez, dexbey, bexdey, cez,
                             bexcey, cexbey, dez), alift),
                    mul(Perm(dexaey, aexdey, cez, aexcey, cexaey, dez,
                             cexdey, dexcey, aez), blift)),
                mul(Perm(aexbey, bexaey, dez, bexdey, dexbey, aez,
                         dexaey, aexdey, bez), clift)),
            mul(Perm(bexcey, cexbey, aez, cexaey, aexcey, bez,
                     aexbey, bexaey, cez), dlift))
      errbound == mul(K.isperrboundA, permanent)
  IN  InOrder(<<aex, bex, cex, dex, aey, bey, cey, dey, aez, bez,
                cez, dez, aexbey, bexaey, bexcey, cexbey, cexdey,
                dexcey, dexaey, aexdey, aexcey, cexaey, bexdey,
                dexbey, ab, bc, cd, da, ac, bd, abc, bcd, cda,
                dab, alift, blift, clift, dlift, det, permanent,
                errbound,
                [done |-> Certified(det, errbound), det |-> det, permanent |-> permanent,
                 aex |-> aex, bex |-> bex, cex |-> cex, dex |-> dex,
                 aey |-> aey, bey |-> bey, cey |-> cey, dey |-> dey,
                 aez |-> aez, bez |-> bez, cez |-> cez, dez |-> dez]>>)

\* insphere: the determinant of the rounded differences as an expansion
ISExpansion(p, l) ==
  LET ab == Call("TwoTwoDiff", <<l.aex, l.bey, l.bex, l.aey>>)
      bc == Call("TwoTwoDiff", <<l.bex, l.cey, l.cex, l.bey>>)
      cd == Call("TwoTwoDiff", <<l.cex, l.dey, l.dex, l.cey>>)
      da == Call("TwoTwoDiff", <<l.dex, l.aey, l.aex, l.dey>>)
      ac == Call("TwoTwoDiff", <<l.aex, l.cey, l.cex, l.aey>>)
      bd == Call("TwoTwoDiff", <<l.bex, l.dey, l.dex, l.bey>>)
      temp24a == operatorPlus(operatorTimes(bc, l.dez),
                   operatorPlus(operatorTimes(cd, l.bez),
                                operatorTimes(bd, Neg(l.cez))))
      temp24b == operatorPlus(operatorTimes(cd, l.aez),
                   operatorPlus(operatorTimes(da, l.cez),
                                operatorTimes(ac, l.dez)))
      temp24c == operatorPlus(operatorTimes(da, l.bez),
                   operatorPlus(operatorTimes(ab, l.dez),
                                operatorTimes(bd, l.aez)))
      temp24d == operatorPlus(operatorTimes(ab, l.cez),
                   operatorPlus(operatorTimes(bc, l.aez),
                                operatorTimes(ac, Neg(l.bez))))
      adet == Call("Lift3", <<temp24a, <<l.aex, l.aey, l.aez>>,
                              <<Neg(l.aex), Neg(l.aey), Neg(l.aez)>> >>)
      bdet == Call("Lift3", <<temp24b, <<l.bex, l.bey, l.bez>>,
                              <<l.bex, l.bey, l.bez>> >>)
      cdet == Call("Lift3", <<temp24c, <<l.cex, l.cey, l.cez>>,
                              <<Neg(l.cex), Neg(l.cey), Neg(l.cez)>> >>)
      ddet == Call("Lift3", <<temp24d, <<l.dex, l.dey, l.dez>>,
                              <<l.dex, l.dey, l.dez>> >>)
      fin1 == operatorPlus(operatorPlus(adet, bdet), operatorPlus(cdet, ddet))
      det  == estimate(Stored(fin1, 1152), Len(fin1))
      errbound == mul(K.isperrboundB, l.permanent)
  IN  InOrder(<<ab, bc, cd, da, ac, bd, temp24a, temp24b, temp24c,
                temp24d, adet, bdet, cdet, ddet, fin1, det,
                errbound,
                [l EXCEPT !.done = Certified(det, errbound), !.det = det] @@
                [ab |-> ab, bc |-> bc, cd |-> cd, da |-> da, ac |-> ac, bd |-> bd]>>)

\* insphere: the tails of the differences and the corrected estimate
ISTail(p, l) ==
  LET aextail == Call("MinusTail", <<p[1][1], p[5][1], l.aex>>)
      aeytail == Call("MinusTail", <<p[1][2], p[5][2], l.aey>>)
      aeztail == Call("MinusTail", <<p[1][3], p[5][3], l.aez>>)
      bextail == Call("MinusTail", <<p[2][1], p[5][1], l.bex>>)
      beytail == Call("MinusTail", <<p[2][2], p[5][2], l.bey>>)
      beztail == Call("MinusTail", <<p[2][3], p[5][3], l.bez>>)
      cextail == Call("MinusTail", <<p[3][1], p[5][1], l.cex>>)
      ceytail == Call("MinusTail", <<p[3][2], p[5][2], l.cey>>)
      ceztail == Call("MinusTail", <<p[3][3], p[5][3], l.cez>>)
      dextail == Call("MinusTail", <<p[4][1], p[5][1], l.dex>>)
      deytail == Call("MinusTail", <<p[4][2], p[5][2], l.dey>>)
      deztail == Call("MinusTail", <<p[4][3], p[5][3], l.dez>>)
      notail  == IsZero(aextail) /\ IsZero(aeytail) /\ IsZero(aeztail)
                 /\ IsZero(bextail) /\ IsZero(beytail) /\ IsZero(beztail)
                 /\ IsZero(cextail) /\ IsZero(ceytail) /\ IsZero(ceztail)
                 /\ IsZero(dextail) /\ IsZero(deytail) /\ IsZero(deztail)
      errbound == add(mul(K.isperrboundC, l.permanent),
                      mul(K.resulterrbound, Abs(l.det)))
      \* (ax * bytail + by * axtail) - (ay * bxtail + bx * aytail)
      Eps(ax, ay, axtail, aytail, bx, by, bxtail, bytail) ==
        sub(add(mul(ax, bytail), mul(by, axtail)),
            add(mul(ay, bxtail), mul(bx, aytail)))
      abeps == Eps(l.aex, l.aey, aextail, aeytail, l.bex, l.bey, bextail, beytail)
      bceps == Eps(l.bex, l.bey, bextail, beytail, l.cex, l.cey, cextail, ceytail)
      cdeps == Eps(l.cex, l.cey, cextail, ceytail, l.dex, l.dey, dextail, deytail)
      daeps == Eps(l.dex, l.dey, dextail, deytail, l.aex, l.aey, aextail, aeytail)
      aceps == Eps(l.aex, l.aey, aextail, aeytail, l.cex, l.cey, cextail, ceytail)
      bdeps == Eps(l.bex, l.bey, bextail, beytail, l.dex, l.dey, dextail, deytail)
      ab3 == mostSignificant(Stored(l.ab, 4), Len(l.ab))
      bc3 == mostSignificant(Stored(l.bc, 4), Len(l.bc))
      cd3 == mostSignificant(Stored(l.cd, 4), Len(l.cd))
      da3 == mostSignificant(Stored(l.da, 4), Len(l.da))
      ac3 == mostSignificant(Stored(l.ac, 4), Len(l.ac))
      bd3 == mostSignificant(Stored(l.bd, 4), Len(l.bd))
      \* x1 * y1 + x2 * y2 + x3 * y3
      Dot(x1, y1, x2, y2, x3, y3) ==
        add(add(mul(x1, y1), mul(x2, y2)), mul(x3, y3))
      \* x1 * y1 - x2 * y2 + x3 * y3
      Alt(x1, y1, x2, y2, x3, y3) ==
        add(sub(mul(x1, y1), mul(x2, y2)), mul(x3, y3))
      first ==
        sub(add(mul(Dot(l.bex, l.bex, l.bey, l.bey, l.bez, l.bez),
                    add(Dot(l.cez, daeps, l.dez, aceps, l.aez, cdeps),
                        Dot(ceztail, da3, deztail, ac3, aeztail, cd3))),
                mul(Dot(l.dex, l.dex, l.dey, l.dey, l.dez, l.dez),
                    add(Alt(l.aez, bceps, l.bez, aceps, l.cez, abeps),
                        Alt(aeztail, bc3, beztail, ac3, ceztail, ab3)))),
            add(mul(Dot(l.aex, l.aex, l.aey, l.aey, l.aez, l.aez),
                    add(Alt(l.bez, cdeps, l.cez, bdeps, l.dez, bceps),
                        Alt(beztail, cd3, ceztail, bd3, deztail, bc3))),
                mul(Dot(l.cex, l.cex, l.cey, l.cey, l.cez, l.cez),
                    add(Dot(l.dez, abeps, l.aez, bdeps, l.bez, daeps),
                        Dot(deztail, ab3, aeztail, bd3, beztail, da3)))))
      second ==
        sub(add(mul(Dot(l.bex, bextail, l.bey, beytail, l.bez, beztail),
                    Dot(l.cez, da3, l.dez, ac3, l.aez, cd3)),
                mul(Dot(l.dex, dextail, l.dey, deytail, l.dez, deztail),
                    Alt(l.aez, bc3, l.bez, ac3, l.cez, ab3))),
            add(mul(Dot(l.aex, aextail, l.aey, aeytail, l.aez, aeztail),
                    Alt(l.bez, cd3, l.cez, bd3, l.dez, bc3)),
                mul(Dot(l.cex, cextail, l.cey, ceytail, l.cez, ceztail),
                    Dot(l.dez, ab3, l.aez, bd3, l.bez, da3))))
      det == add(l.det, add(first, mul(FromInt(2), second)))
  IN  InOrder(<<aextail, aeytail, aeztail, bextail, beytail,
                beztail, cextail, ceytail, ceztail, dextail,
                deytail, deztail, notail, errbound, abeps, bceps,
                cdeps, daeps, aceps, bdeps, ab3, bc3, cd3, da3,
                ac3, bd3, first, second, det,
                [l EXCEPT !.done = notail \/ Certified(det, errbound),
                          !.det = IF notail THEN l.det ELSE det] @@ [notail |-> notail]>>)

\* insphere: the last estimate returned in place of the exact value
ISExactEstimate(p, l) == [l EXCEPT !.done = TRUE]

\* insphere: return exact::insphere(pa, pb, pc, pd, pe)
ISExact(p, l) ==
  [l EXCEPT !.done = TRUE,
            !.det = Call("ExactInsphere", <<p[1], p[2], p[3], p[4], p[5]>>)]

--------------------------------------------------------------------------
(* The call of f with the arguments a.  Arguments are passed by value: the  *)
(* test on Len(a) has the tuple a, and so each argument, evaluated before   *)
(* the body of f.                                                           *)

\* the blocks of each adaptive evaluator, and the exact evaluator beside it
Blocks ==
  [orient2d |-> [fast |-> "O2Fast", expansion |-> "O2Expansion",
                 tail |-> "O2Tail", exact |-> "O2Exact",
                 reference |-> "ExactOrient2d"],
   orient3d |-> [fast |-> "O3Fast", expansion |-> "O3Expansion",
                 tail |-> "O3Tail", exact |-> "O3Exact",
                 reference |-> "ExactOrient3d"],
   incircle |-> [fast |-> "ICFast", expansion |-> "ICExpansion",
                 tail |-> "ICTail", exact |-> "ICExact",
                 reference |-> "ExactIncircle"],
   insphere |-> [fast |-> "ISFast", expansion |-> "ISExpansion",
                 tail |-> "ISTail", exact |-> "ISExact",
                 reference |-> "ExactInsphere"]]

\* the whole of a call: the blocks in order up to the first that returns;
\* det is the value returned and stage the block that returned it
Adaptive(p, t) ==
  LET l1 == Call(Blocks[p].fast, <<t, [done |-> FALSE]>>)
  IN  IF l1.done THEN [det |-> l1.det, stage |-> "fast"]
      ELSE LET l2 == Call(Blocks[p].expansion, <<t, l1>>)
           IN  IF l2.done THEN [det |-> l2.det, stage |-> "expansion"]
               ELSE LET l3 == Call(Blocks[p].tail, <<t, l2>>)
                    IN  IF l3.done THEN [det |-> l3.det, stage |-> "tail"]
                        ELSE [det |-> Call(Blocks[p].exact, <<t, l3>>).det,
                              stage |-> "exact"]

Call(f, a) ==
  CASE Len(a) = 0 -> a
    [] f = "+" -> Add(a[1], a[2])
    [] f = "-" -> Sub(a[1], a[2])
    [] f = "*" -> Mul(a[1], a[2])
    [] f = "fma" -> Fma(a[1], a[2], a[3])
    [] f = "PlusTail" -> PlusTail(a[1], a[2], a[3])
    [] f = "FastPlusTail" -> FastPlusTail(a[1], a[2], a[3])
    [] f = "MinusTail" -> MinusTail(a[1], a[2], a[3])
    [] f = "Split" -> Split(a[1])
    [] f = "DekkersProduct" -> DekkersProduct(a[1], a[2], a[3], a[4], a[5])
    [] f = "MultTail" -> MultTail(a[1], a[2], a[3])
    [] f = "MultTailPreSplit" -> MultTailPreSplit(a[1], a[2], a[3], a[4])
    [] f = "Plus" -> Plus(a[1], a[2])
    [] f = "Minus" -> Minus(a[1], a[2])
    [] f = "Mult" -> Mult(a[1], a[2])
    [] f = "TwoTwoDiff" -> TwoTwoDiff(a[1], a[2], a[3], a[4])
    [] f = "ExpansionSum" -> ExpansionSum(a[1], a[2])
    [] f = "ScaleExpansion" -> ScaleExpansion(a[1], a[2])
    [] f = "Emit" -> Emit(a[1], a[2])
    [] f = "SumStart" -> SumStart(a[1], a[2])
    [] f = "SumStep" -> SumStep(a[1])
    [] f = "ScaleStart" -> ScaleStart(a[1], a[2], a[3])
    [] f = "ScaleStep" -> ScaleStep(a[1], a[2], a[3], a[4])
    [] f = "TwoTwoDiffZeroCheck" -> TwoTwoDiffZeroCheck(a[1], a[2], a[3], a[4])
    [] f = "ThreeProd" -> ThreeProd(a[1], a[2], a[3])
    [] f = "Lift2" -> Lift2(a[1], a[2], a[3])
    [] f = "Minor3" -> Minor3(a[1], a[2], a[3], a[4], a[5], a[6])
    [] f = "Lift3" -> Lift3(a[1], a[2], a[3])
    [] f = "O3TailTerm" ->
         O3TailTerm(a[1], a[2], a[3], a[4], a[5], a[6], a[7], a[8], a[9], a[10])
    [] f = "ICTailTerm" ->
         ICTailTerm(a[1], a[2], a[3], a[4], a[5], a[6], a[7], a[8], a[9], a[10],
                    a[11], a[12])
    [] f = "ExactOrient2d" -> ExactOrient2d(a[1], a[2], a[3])
    [] f = "ExactIncircle" -> ExactIncircle(a[1], a[2], a[3], a[4])
    [] f = "ExactOrient3d" -> ExactOrient3d(a[1], a[2], a[3], a[4])
    [] f = "ExactInsphere" -> ExactInsphere(a[1], a[2], a[3], a[4], a[5])
    [] f = "O2Fast" -> O2Fast(a[1], a[2])
    [] f = "O2Expansion" -> O2Expansion(a[1], a[2])
    [] f = "O2Tail" -> O2Tail(a[1], a[2])
    [] f = "O2Exact" -> O2Exact(a[1], a[2])
    [] f = "O3Fast" -> O3Fast(a[1], a[2])
    [] f = "O3Expansion" -> O3Expansion(a[1], a[2])
    [] f = "O3Tail" -> O3Tail(a[1], a[2])
    [] f = "O3Exact" -> O3Exact(a[1], a[2])
    [] f = "ICFast" -> ICFast(a[1], a[2])
    [] f = "ICExpansion" -> ICExpansion(a[1], a[2])
    [] f = "ICTail" -> ICTail(a[1], a[2])
    [] f = "ICExact" -> ICExact(a[1], a[2])
    [] f = "ISFast" -> ISFast(a[1], a[2])
    [] f = "ISExpansion" -> ISExpansion(a[1], a[2])
    [] f = "ISTail" -> ISTail(a[1], a[2])
    [] f = "ISExact" -> ISExact(a[1], a[2])
    [] f = "adaptive" -> Adaptive(a[1], a[2])

--------------------------------------------------------------------------
(* One call of an adaptive evaluator *)

NoValue == <<>>

Returned == ret # NoValue

\* an end of block that returns from the last two blocks only
StageEndLate(l, next) ==
  /\ loc' = l
  /\ ret' = IF l.done /\ next = "exact" THEN l.det ELSE NoValue
  /\ pc' = IF l.done /\ next = "exact" THEN pc ELSE next
  /\ UNCHANGED <<use_fma, K, initd, pred, pts, hist, stale>>

\* a block has computed the locals l: return l.det, or go on to the block next
StageEnd(l, next) ==
  /\ loc' = l
  /\ ret' = IF l.done THEN l.det ELSE NoValue
  /\ pc' = IF l.done THEN pc ELSE next
  /\ UNCHANGED <<use_fma, K, initd, pred, pts, hist, stale>>

StageFast ==
  /\ pc = "fast" /\ ~Returned
  /\ \E l \in {Call(Blocks[pred].fast, <<pts, loc>>)} : StageEnd(l, "expansion")

StageExpansion ==
  /\ pc = "expansion" /\ ~Returned
  /\ \E l \in {Call(Blocks[pred].expansion, <<pts, loc>>)} : StageEnd(l, "tail")

StageTail ==
  /\ pc = "tail" /\ ~Returned
  /\ \E l \in {Call(Blocks[pred].tail, <<pts, loc>>)} : StageEnd(l, "exact")

StageExact ==
  /\ pc = "exact" /\ ~Returned
  /\ \E l \in {Call(Blocks[pred].exact, <<pts, loc>>)} : StageEnd(l, "exact")

NextAdaptive == StageFast \/ StageExpansion \/ StageTail \/ StageExact

\* the whole of a call of the adaptive evaluator p on the arguments t
Run(p, t) == Call("adaptive", <<p, t>>)

\* one call of an exact evaluator
CallExact ==
  /\ pc = "reference" /\ ~Returned
  /\ ret' = Call(Blocks[pred].reference, pts)
  /\ UNCHANGED <<use_fma, K, initd, pred, pts, pc, loc, hist, stale>>

--------------------------------------------------------------------------
(* The arguments the calls are made with.  Coordinates are written in      *)
(* halves, so that neighbouring values differ in their last bits and the   *)
(* later stages are reached.                                               *)

\* the number of points of a predicate (pa, pb, ...) and the degree of its
\* determinant in the coordinates
Arity == [orient2d |-> 3, orient3d |-> 4, incircle |-> 4, insphere |-> 5]

Degree == [orient2d |-> 2, orient3d |-> 3, incircle |-> 4, insphere |-> 5]

Predicates == {"orient2d", "orient3d", "incircle", "insphere"}

\* the number of coordinate values of the grid orient2d is called on
NCoord2 == 5

\* the number of points whose every tuple is an argument list
NPointsAll == 5

\* the number of points whose selections in table order are argument lists
NPointsAsc == 8

\* the largest k for which the arguments are also multiplied by 2^k
MaxShift == 2

\* the number of calls made one after the other
MaxCalls == 3

\* coordinate values in units of 1/2
CoordTable2 == <<1, 66, 126, 2, 80, 0, 3, 94>>

PointTable ==
  [orient2d |-> << <<80, 94>>, <<1, 0>>, <<0, 3>>, <<2, 1>>, <<66, 2>>,
                   <<66, 80>>, <<80, 66>>, <<126, 2>>, <<1, 1>> >>,
   orient3d |-> << <<126, 126, 126>>, <<126, 2, 2>>, <<2, 66, 66>>,
                   <<66, 1, 1>>, <<1, 80, 66>>, <<80, 1, 80>>,
                   <<126, 80, 80>>, <<66, 1, 2>>, <<2, 126, 1>> >>,
   incircle |-> << <<1, 1>>, <<126, 126>>, <<66, 2>>, <<2, 80>>, <<80, 66>>,
                   <<66, 1>>, <<126, 80>>, <<2, 126>>, <<80, 2>> >>,
   insphere |-> << <<66, 2, 80>>, <<1, 1, 126>>, <<1, 66, 126>>,
                   <<1, 126, 2>>, <<1, 1, 80>>, <<80, 1, 2>>,
                   <<1, 126, 80>>, <<1, 126, 1>>, <<80, 66, 80>> >>]

\* k halves as a value of T
Halves(k) == IF k = 0 THEN PZero ELSE Round(k, -1)

\* the point with the coordinates c, given in halves, times 2^-u
PointAt(c, u) == <<>> \o [j \in 1..Len(c) |-> Ldexp(Halves(c[j]), -u)]

\* the argument list of the points cs
PointsAt(cs, u) == <<>> \o [i \in 1..Len(cs) |-> PointAt(cs[i], u)]

Coords2 == {CoordTable2[i] : i \in 1..NCoord2}

Points2 == {<<Halves(x), Halves(y)>> : x \in Coords2, y \in Coords2}

\* orient2d on every triple of grid points
GridInputs == {<<"orient2d", t>> : t \in Points2 \X Points2 \X Points2}

\* p on every tuple of the first NPointsAll points of its table
TupleInputs(p) ==
  {<<p, PointsAt([j \in 1..Arity[p] |-> PointTable[p][ix[j]]], 0)>> :
     ix \in [1..Arity[p] -> 1..NPointsAll]}

\* p on every selection, in table order, of the first NPointsAsc points
AscInputs(p) ==
  {<<p, PointsAt([j \in 1..Arity[p] |-> PointTable[p][ix[j]]], 0)>> :
     ix \in {f \in [1..Arity[p] -> 1..NPointsAsc] :
               \A j \in 1..(Arity[p] - 1) : f[j] < f[j + 1]}}

\* incircle on points whose coordinates are so small that the products of
\* four of them are below denorm_min; the differences of the last are exact
TinyInputs ==
  {<<"incircle", PointsAt(<< <<2, 66>>, <<126, 1>>, <<1, 2>>, <<1, 2>> >>, 11)>>,
   <<"incircle", PointsAt(<< <<66, 80>>, <<1, 126>>, <<66, 126>>, <<66, 126>> >>, 11)>>,
   <<"incircle", PointsAt(<< <<1, 80>>, <<80, 126>>, <<1, 1>>, <<2, 1>> >>, 14)>>,
   <<"incircle", PointsAt(<< <<2, 2>>, <<1, 80>>, <<2, 80>>, <<80, 80>> >>, 14)>>,
   <<"incircle", PointsAt(<< <<22, 45>>, <<28, 51>>, <<2, 18>>, <<36, 58>> >>, 11)>>}

\* the arguments multiplied by 2^k
Scaled(t, k) ==
  <<>> \o [i \in 1..Len(t) |->
             <<>> \o [j \in 1..Len(t[i]) |-> Ldexp(t[i][j], k)]]

\* the arguments with the points at positions i and j swapped
Swapped(t, i, j) ==
  <<>> \o [n \in 1..Len(t) |-> IF n = i THEN t[j] ELSE IF n = j THEN t[i] ELSE t[n]]

--------------------------------------------------------------------------
(* The determinants in real arithmetic.  The coordinates of an argument    *)
(* list are integer multiples of 2^g, g the least exponent among them;     *)
(* the sign of a determinant is that of the determinant of the integers.   *)
(* Integers beyond 31 bits are pairs <<h, l>> standing for h * 2^15 + l    *)
(* with 0 <= l < 2^15.                                                     *)

GridExp(t) ==
  LET es == {t[i][j][2] : <<i, j>> \in
               {ij \in (1..Len(t)) \X (1..Len(t[1])) : ~IsZero(t[ij[1]][ij[2]])}}
  IN  IF es = {} THEN 0 ELSE CHOOSE e \in es : \A f \in es : e <= f

\* the coordinate x in units of 2^g
Units(x, g) == IF IsZero(x) THEN 0 ELSE x[1] * Pow2(x[2] - g)

\* the coordinates of point i relative to the last point, in units of 2^g
Rel(t, i) ==
  LET g == GridExp(t)
  IN  [j \in 1..Len(t[1]) |-> Units(t[i][j], g) - Units(t[Len(t)][j], g)]

\* no product of Degree[p] coordinates has bits below denorm_min
NoUnderflow(p, t) == Degree[p] * GridExp(t) >= -DenormExp

BigOfInt(n) == <<n \div 32768, n % 32768>>

BigAdd(x, y) == <<x[1] + y[1] + ((x[2] + y[2]) \div 32768), (x[2] + y[2]) % 32768>>

\* x * k for an integer |k| < 2^16
BigMulInt(x, k) == <<x[1] * k + ((x[2] * k) \div 32768), (x[2] * k) % 32768>>

BigSign(x) == IF x[1] # 0 THEN ISign(x[1]) ELSE ISign(x[2])

Det2(a, b) == a[1] * b[2] - a[2] * b[1]

Det3(a, b, c) ==
  a[1] * (b[2] * c[3] - b[3] * c[2])
  - a[2] * (b[1] * c[3] - b[3] * c[1])
  + a[3] * (b[1] * c[2] - b[2] * c[1])

SqNorm2(a) == a[1] * a[1] + a[2] * a[2]

SqNorm3(a) == a[1] * a[1] + a[2] * a[2] + a[3] * a[3]

\* the sign of (ax-cx)*(by-cy) - (ay-cy)*(bx-cx)
RealOrient2d(t) == ISign(Det2(Rel(t, 1), Rel(t, 2)))

\* the sign of the determinant of the rows a-d, b-d, c-d
RealOrient3d(t) == ISign(Det3(Rel(t, 1), Rel(t, 2), Rel(t, 3)))

\* the sign of the determinant of the rows (x, y, x^2 + y^2) of a-d, b-d, c-d
RealIncircle(t) ==
  LET a == Rel(t, 1)
      b == Rel(t, 2)
      c == Rel(t, 3)
  IN  BigSign(BigAdd(BigAdd(BigMulInt(BigOfInt(Det2(b, c)), SqNorm2(a)),
                            BigMulInt(BigOfInt(Det2(a, c)), -SqNorm2(b))),
                     BigMulInt(BigOfInt(Det2(a, b)), SqNorm2(c))))

\* the sign of the determinant of the rows (x, y, z, x^2 + y^2 + z^2) of
\* a-e, b-e, c-e, d-e
RealInsphere(t) ==
  LET a == Rel(t, 1)
      b == Rel(t, 2)
      c == Rel(t, 3)
      d == Rel(t, 4)
  IN  BigSign(BigAdd(BigAdd(BigMulInt(BigOfInt(Det3(b, c, d)), -SqNorm3(a)),
                            BigMulInt(BigOfInt(Det3(a, c, d)), SqNorm3(b))),
                     BigAdd(BigMulInt(BigOfInt(Det3(a, b, d)), -SqNorm3(c)),
                            BigMulInt(BigOfInt(Det3(a, b, c)), SqNorm3(d)))))

RealSign(p, t) ==
  CASE p = "orient2d" -> RealOrient2d(t)
    [] p = "orient3d" -> RealOrient3d(t)
    [] p = "incircle" -> RealIncircle(t)
    [] p = "insphere" -> RealInsphere(t)

--------------------------------------------------------------------------
(* Specifications of single calls *)

\* the start of a call at position start, on one of the argument lists ins,
\* in a build with or without fma, after the static initialisation
InitCall(ins, start) ==
  /\ use_fma \in BOOLEAN
  /\ K = FinalK
  /\ initd = StaticNames
  /\ \E in \in ins : pred = in[1] /\ pts = in[2]
  /\ pc = start
  /\ loc = [done |-> FALSE]
  /\ ret = NoValue
  /\ hist = <<>>
  /\ stale = <<1, 0>>

InitO2 == InitCall(GridInputs, "fast")

SpecO2 == InitO2 /\ [][NextAdaptive]_vars

InitO3 == InitCall(TupleInputs("orient3d"), "fast")

SpecO3 == InitO3 /\ [][NextAdaptive]_vars

InitC3 ==
  InitCall(TupleInputs("incircle") \cup AscInputs("insphere") \cup TinyInputs, "fast")

SpecC3 == InitC3 /\ [][NextAdaptive]_vars

InitExact ==
  InitCall(TupleInputs("orient2d") \cup TupleInputs("orient3d")
             \cup TupleInputs("incircle") \cup AscInputs("insphere")
             \cup TinyInputs, "reference")

SpecExact == InitExact /\ [][CallExact]_vars

AllInputs == UNION {AscInputs(p) : p \in Predicates}

InitAll == InitCall(AllInputs, "fast")

SpecAll == InitAll /\ [][NextAdaptive]_vars

--------------------------------------------------------------------------
(* Static initialisation.  The static members are zero-initialised, then   *)
(* each is set by its own initialiser; the initialisations of the members  *)
(* of a class template are unordered, among themselves and with respect    *)
(* to a call made by the initialiser of any other object.  Initialisation  *)
(* is single-threaded, so a call runs from entry to return between two of  *)
(* them.  Of the static members a behaviour has those the called predicate *)
(* reads and epsilon, which their initialisers read: the others are        *)
(* neither read nor written by anything in it.                             *)

\* the static members a call of p reads
CallReads(p) ==
  {"resulterrbound", "Splitter"} \cup
  (CASE p = "orient2d" -> {"ccwerrboundA", "ccwerrboundB", "ccwerrboundC"}
     [] p = "orient3d" -> {"o3derrboundA", "o3derrboundB", "o3derrboundC"}
     [] p = "incircle" -> {"iccerrboundA", "iccerrboundB", "iccerrboundC"}
     [] p = "insphere" -> {"isperrboundA", "isperrboundB", "isperrboundC"})

\* each predicate on the first points of its table, and orient2d on three
\* collinear points that only the last stage decides
FirstInputs ==
  {<<p, PointsAt(SubSeq(PointTable[p], 1, Arity[p]), 0)>> : p \in Predicates}
  \cup {<<"orient2d", PointsAt(<< <<1, 1>>, <<66, 66>>, <<126, 126>> >>, 0)>>}

InitStart ==
  /\ use_fma \in BOOLEAN
  /\ K = ZeroK
  /\ initd = {}
  /\ \E in \in FirstInputs : pred = in[1] /\ pts = in[2]
  /\ pc = "idle"
  /\ loc = [done |-> FALSE]
  /\ ret = NoValue
  /\ hist = <<>>
  /\ stale = <<1, 0>>

\* the dynamic initialisation of the static member n
InitStatic(n) ==
  /\ n \notin initd
  /\ K' = [K EXCEPT ![n] = StaticInit(n, K)]
  /\ initd' = initd \cup {n}
  /\ UNCHANGED <<use_fma, pred, pts, pc, loc, ret, hist, stale>>

\* the first call of the predicate, from entry to return
FirstCall ==
  /\ pc = "idle"
  /\ \E r \in {Run(pred, pts)} :
       /\ ret' = r.det
       /\ pc' = r.stage
       /\ loc' = [done |-> TRUE, det |-> r.det]
  /\ UNCHANGED <<use_fma, K, initd, pred, pts, hist, stale>>

NextInit ==
  \/ \E n \in CallReads(pred) \cup {"epsilon"} : InitStatic(n)
  \/ FirstCall

SpecInit == InitStart /\ [][NextInit]_vars

--------------------------------------------------------------------------
(* Calls one after the other.  A call finds in the memory of its locals    *)
(* what some earlier call left there.                                      *)

InitCalls ==
  /\ use_fma \in BOOLEAN
  /\ K = FinalK
  /\ initd = StaticNames
  /\ pred = "none"
  /\ pts = <<>>
  /\ pc = "idle"
  /\ loc = [done |-> FALSE]
  /\ ret = NoValue
  /\ hist = <<>>
  /\ stale \in {PZero, <<1, 0>>}

\* a call from entry to return; hist records it with the stale memory it ran on
NextCall ==
  /\ Len(hist) < MaxCalls
  /\ \E in \in FirstInputs :
       \E r \in {Run(in[1], in[2])} :
         /\ pred' = in[1]
         /\ pts' = in[2]
         /\ ret' = r.det
         /\ pc' = r.stage
         /\ loc' = [done |-> TRUE, det |-> r.det]
         /\ hist' = Append(hist, [pred |-> in[1], pts |-> in[2],
                                  ret |-> r.det, seen |-> stale])
         /\ stale' \in {PZero, <<1, 0>>, r.det}
  /\ UNCHANGED <<use_fma, K, initd>>

SpecCalls == InitCalls /\ [][NextCall]_vars

--------------------------------------------------------------------------
(* The error-free transformations on their own *)

\* the operands have exponents up to MaxExp above the least one
MaxExp == 3

\* the values of T with exponents 0..MaxExp, times 2^s
TValues(s) ==
  {PZero, NZero} \cup
  {<<m, e + s>> : m \in {n \in (1 - Pow2(Digits))..(Pow2(Digits) - 1) : n % 2 = 1},
                  e \in 0..MaxExp}

\* operands a, b of ordinary size, or next to denorm_min
InitTails ==
  /\ use_fma = FALSE
  /\ K = FinalK
  /\ initd = StaticNames
  /\ pred = "none"
  /\ \E s \in {0, -DenormExp} : pts \in TValues(s) \X TValues(s)
  /\ pc = "operands"
  /\ loc = [done |-> FALSE]
  /\ ret = NoValue
  /\ hist = <<>>
  /\ stale = <<1, 0>>

\* x = a + b and PlusTail(a, b, x)
TailOfSum ==
  /\ pc = "operands"
  /\ \E x \in {add(pts[1], pts[2])} :
       /\ loc' = [done |-> TRUE, x |-> x]
       /\ ret' = Call("PlusTail", <<pts[1], pts[2], x>>)
  /\ pc' = "PlusTail"
  /\ UNCHANGED <<use_fma, K, initd, pred, pts, hist, stale>>

\* x = a - b and MinusTail(a, b, x)
TailOfDifference ==
  /\ pc = "operands"
  /\ \E x \in {sub(pts[1], pts[2])} :
       /\ loc' = [done |-> TRUE, x |-> x]
       /\ ret' = Call("MinusTail", <<pts[1], pts[2], x>>)
  /\ pc' = "MinusTail"
  /\ UNCHANGED <<use_fma, K, initd, pred, pts, hist, stale>>

NextTails == TailOfSum \/ TailOfDifference

SpecTails == InitTails /\ [][NextTails]_vars

--------------------------------------------------------------------------
(* The product operations in the build with and in the build without a    *)
(* fused multiply-add, on the same operands                                *)

\* the operations whose code depends on use_fma
ProductOps == {"MultTail", "Mult", "TwoTwoDiff", "ScaleExpansion"}

\* every significand of T, with either sign, and zero
ProductValues ==
  {PZero} \cup {v \in TValues(0) : ~IsZero(v) /\ v[2] = 0}

\* further operands, of another magnitude
ProductOthers == {<<3, 0>>, <<-45, 2>>}

\* operands a, b, c, d of one of the operations, in either build
InitProducts ==
  /\ use_fma \in BOOLEAN
  /\ K = FinalK
  /\ initd = StaticNames
  /\ pred \in ProductOps
  /\ pts \in ProductValues \X ProductValues \X ProductOthers \X ProductOthers
  /\ pc = "operands"
  /\ loc = [done |-> FALSE]
  /\ ret = NoValue
  /\ hist = <<>>
  /\ stale = <<1, 0>>

\* the operation has returned r
ProductDone(r) ==
  /\ ret' = r
  /\ pc' = "done"
  /\ UNCHANGED <<use_fma, K, initd, pred, pts, hist, stale>>

\* p = a * b and MultTail(a, b, p)
CallMultTail ==
  /\ pc = "operands" /\ pred = "MultTail"
  /\ \E p \in {mul(pts[1], pts[2])} :
       /\ loc' = [done |-> TRUE, x |-> p]
       /\ ProductDone(Call("MultTail", <<pts[1], pts[2], p>>))

\* Mult(a, b)
CallMult ==
  /\ pc = "operands" /\ pred = "Mult"
  /\ loc' = [done |-> TRUE]
  /\ ProductDone(Call("Mult", <<pts[1], pts[2]>>))

\* TwoTwoDiff(a, b, c, d)
CallTwoTwoDiff ==
  /\ pc = "operands" /\ pred = "TwoTwoDiff"
  /\ loc' = [done |-> TRUE]
  /\ ProductDone(Call("TwoTwoDiff", <<pts[1], pts[2], pts[3], pts[4]>>))

\* ScaleExpansion(Plus(a, c), b)
CallScaleExpansion ==
  /\ pc = "operands" /\ pred = "ScaleExpansion"
  /\ \E e \in {Call("Plus", <<pts[1], pts[3]>>)} :
       /\ loc' = [done |-> TRUE, e |-> e]
       /\ ProductDone(Call("ScaleExpansion", <<e, pts[2]>>))

\* the same operands are given to the other build
OtherBuild ==
  /\ pc = "done" /\ hist = <<>>
  /\ hist' = <<[use_fma |-> use_fma, loc |-> loc, ret |-> ret]>>
  /\ use_fma' = ~use_fma
  /\ pc' = "operands"
  /\ loc' = [done |-> FALSE]
  /\ ret' = NoValue
  /\ UNCHANGED <<K, initd, pred, pts, stale>>

NextProducts ==
  \/ CallMultTail
  \/ CallMult
  \/ CallTwoTwoDiff
  \/ CallScaleExpansion
  \/ OtherBuild

SpecProducts == InitProducts /\ [][NextProducts]_vars

--------------------------------------------------------------------------
(* TwoTwoDiffZeroCheck and TwoTwoDiff on the same operands *)

\* the values passed as ax and ay: zeros and roundoff terms
ZeroCheckTails == {PZero, NZero, <<3, 0>>, <<-45, 2>>}

\* the values passed as bx
ZeroCheckFactors == {<<3, 0>>, <<-45, 2>>, <<63, 0>>}

\* operands ax, by, ay, bx
InitZeroCheck ==
  /\ use_fma \in BOOLEAN
  /\ K = FinalK
  /\ initd = StaticNames
  /\ pred \in {"TwoTwoDiff", "TwoTwoDiffZeroCheck"}
  /\ pts \in ZeroCheckTails \X ProductValues \X ZeroCheckTails \X ZeroCheckFactors
  /\ pc = "operands"
  /\ loc = [done |-> FALSE]
  /\ ret = NoValue
  /\ hist = <<>>
  /\ stale = <<1, 0>>

\* TwoTwoDiffZeroCheck(ax, by, ay, bx)
CallTwoTwoDiffZeroCheck ==
  /\ pc = "operands" /\ pred = "TwoTwoDiffZeroCheck"
  /\ loc' = [done |-> TRUE]
  /\ ProductDone(Call("TwoTwoDiffZeroCheck", <<pts[1], pts[2], pts[3], pts[4]>>))

NextZeroCheck == CallTwoTwoDiffZeroCheck \/ CallTwoTwoDiff

SpecZeroCheck == InitZeroCheck /\ [][NextZeroCheck]_vars

--------------------------------------------------------------------------
(* The operators of Expansion<T, N>, applied to expansions made by Plus,   *)
(* Mult and TwoTwoDiff and to their own results                            *)

\* the operators applied one after the other are at most MaxChain + 1
MaxChain == 1

\* the scalars the expansions are made from
SeedScalars == {<<1, 0>>, <<-45, 2>>, <<63, 0>>, <<37, 3>>, <<-59, 1>>}

\* the expansions given as E: the empty one and the results of Plus, Mult
\* and TwoTwoDiff
SeedExpansions ==
  {<<>>}
  \cup {Call("Plus", <<a, b>>) : a, b \in SeedScalars}
  \cup {Call("Mult", <<a, b>>) : a, b \in SeedScalars}
  \cup {Call("TwoTwoDiff", <<a, b, c, d>>) :
          a, b \in SeedScalars, c \in {<<63, 0>>}, d \in {<<37, 3>>, <<-59, 1>>}}

\* the expansions given as F
SeedOthers ==
  {<<>>, <<<<1, 0>>>>, <<<<-45, 2>>>>}
  \cup {Call("Plus", <<a, b>>) : a \in {<<63, 0>>, <<-59, 1>>}, b \in SeedScalars}
  \cup {Call("Mult", <<a, b>>) : a \in {<<63, 0>>}, b \in {<<37, 3>>, <<-59, 1>>}}

\* the scalars given as b
ScaleValues == {PZero, NZero, <<3, 0>>, <<-45, 2>>, <<63, 0>>}

\* expansions a caller fills with push_back: their components do not
\* overlap, but a component may touch both its neighbours
BuiltExpansions ==
  {<< <<-31, 1>>, <<-41, 6>> >>,
   << <<1, 0>>, <<-51, 1>>, <<-15, 7>>, <<-1, 11>>, <<3, 12>> >>,
   << <<-1, 0>>, <<7, 1>>, <<9, 4>>, <<1, 10>> >>}

\* operands E, F and b: E and F are results of the operations, or were
\* filled with push_back
InitExpansions ==
  /\ use_fma \in BOOLEAN
  /\ K = FinalK
  /\ initd = StaticNames
  /\ \/ pred = "operations" /\ pts \in SeedExpansions \X SeedOthers \X ScaleValues
     \/ pred = "push_back"
        /\ pts \in BuiltExpansions \X BuiltExpansions \X ScaleValues
  /\ pc = "operands"
  /\ loc = [done |-> FALSE]
  /\ ret = NoValue
  /\ hist = <<>>
  /\ stale = <<1, 0>>

\* the operator op has returned r
ExpansionDone(op, r) ==
  /\ pc = "operands"
  /\ ret' = r
  /\ pc' = op
  /\ UNCHANGED <<use_fma, K, initd, pred, pts, loc, hist, stale>>

\* E + F
ExpansionPlus == ExpansionDone("operator+", operatorPlus(pts[1], pts[2]))

\* E - F
ExpansionMinus == ExpansionDone("operator-", operatorMinus(pts[1], pts[2]))

\* -E
ExpansionNegate == ExpansionDone("negate", operatorNeg(pts[1]))

\* E * b
ExpansionTimes == ExpansionDone("operator*", operatorTimes(pts[1], pts[3]))

\* the result is the E of a further operator
UseResult ==
  /\ pc # "operands"
  /\ Len(hist) < MaxChain
  /\ pts' = <<ret, pts[2], pts[3]>>
  /\ hist' = Append(hist, [op |-> pc, E |-> pts[1]])
  /\ pc' = "operands"
  /\ ret' = NoValue
  /\ UNCHANGED <<use_fma, K, initd, pred, loc, stale>>

NextExpansions ==
  \/ ExpansionPlus
  \/ ExpansionMinus
  \/ ExpansionNegate
  \/ ExpansionTimes
  \/ UseResult

SpecExpansions == InitExpansions /\ [][NextExpansions]_vars

--------------------------------------------------------------------------
(* ExpansionSum and ScaleExpansion statement by statement: loc holds the   *)
(* output array h, the write index hIndex, the running value Q and the     *)
(* read index g (eIndex in ScaleExpansion)                                 *)

\* the expansions given as e and f, of one component or more
LoopExpansions ==
  (SeedExpansions \cup SeedOthers \cup BuiltExpansions) \ {<<>>}

\* the call made, and its operands e, f and b
InitLoops ==
  /\ use_fma \in BOOLEAN
  /\ K = FinalK
  /\ initd = StaticNames
  /\ pred \in {"ExpansionSum", "ScaleExpansion"}
  /\ pts \in LoopExpansions \X (SeedOthers \ {<<>>}) \X (ScaleValues \ {PZero, NZero})
  /\ pc = "entry"
  /\ loc = [done |-> FALSE]
  /\ ret = NoValue
  /\ hist = <<>>
  /\ stale = <<1, 0>>

\* the statement executed leaves the locals l
LoopStep(l, next) ==
  /\ loc' = l
  /\ pc' = next
  /\ UNCHANGED <<use_fma, K, initd, pred, pts, ret, hist, stale>>

\* the function returns hIndex
LoopReturn(l) ==
  /\ loc' = l
  /\ ret' = l.hIndex
  /\ pc' = "returned"
  /\ UNCHANGED <<use_fma, K, initd, pred, pts, hist, stale>>

\* ExpansionSum: the merge into h and the sum of the first two components
SumEnter ==
  /\ pred = "ExpansionSum" /\ pc = "entry"
  /\ LoopStep(Call("SumStart", <<pts[1], pts[2]>>), "loop")

\* ExpansionSum: one iteration of the loop
SumIterate ==
  /\ pred = "ExpansionSum" /\ pc = "loop"
  /\ loc.g # Len(pts[1]) + Len(pts[2])
  /\ LoopStep(Call("SumStep", <<loc>>), "loop")

\* ExpansionSum: the last component and the return
SumExit ==
  /\ pred = "ExpansionSum" /\ pc = "loop"
  /\ loc.g = Len(pts[1]) + Len(pts[2])
  /\ LoopReturn(Call("Emit", <<loc, loc.Q>>))

\* ScaleExpansion: the product with the first component
ScaleEnter ==
  /\ pred = "ScaleExpansion" /\ pc = "entry"
  /\ LoopStep(Call("ScaleStart", <<pts[1], pts[3], Call("Split", <<pts[3]>>)>>), "loop")

\* ScaleExpansion: one iteration of the loop
ScaleIterate ==
  /\ pred = "ScaleExpansion" /\ pc = "loop"
  /\ loc.g < Len(pts[1])
  /\ LoopStep(Call("ScaleStep", <<loc, pts[1], pts[3], Call("Split", <<pts[3]>>)>>),
              "loop")

\* ScaleExpansion: the last component and the return
ScaleExit ==
  /\ pred = "ScaleExpansion" /\ pc = "loop"
  /\ loc.g >= Len(pts[1])
  /\ LoopReturn(Call("Emit", <<loc, loc.Q>>))

NextLoops ==
  \/ SumEnter
  \/ SumIterate
  \/ SumExit
  \/ ScaleEnter
  \/ ScaleIterate
  \/ ScaleExit

SpecLoops == InitLoops /\ [][NextLoops]_vars

--------------------------------------------------------------------------
(* Properties *)

\* the sign the exact evaluator of the called predicate gives
ExactSign == Sign(Call(Blocks[pred].reference, pts))

\* C1: when no product of coordinates underflows, the value adaptive::orient2d
\* returns has the sign of the real determinant
\* (ax-cx)*(by-cy) - (ay-cy)*(bx-cx) -- positive, negative, or zero exactly
\* for collinear points -- at whichever stage it returns
C1_Orient2dSign ==
  (pred = "orient2d" /\ Returned /\ NoUnderflow(pred, pts))
    => Sign(ret) = RealOrient2d(pts)

\* three points that are not collinear, decided by the last stage
C1_Witness ==
  /\ pred = "orient2d" /\ Returned /\ pc = "exact"
  /\ NoUnderflow(pred, pts) /\ Sign(ret) = 1

\* C2: the sign of adaptive::orient3d is the sign of exact::orient3d on the
\* same points, for all finite points, also when the call is resolved by
\* the final expansion and when some of the difference tails are zero
C2_Orient3dAgrees ==
  (pred = "orient3d" /\ Returned) => Sign(ret) = ExactSign

\* C3: the sign of adaptive::incircle is the sign of exact::incircle, and the
\* sign of adaptive::insphere the sign of exact::insphere, for all finite
\* points and at whichever stage the adaptive call returns
C3_AdaptiveAgrees ==
  (pred \in {"incircle", "insphere"} /\ Returned) => Sign(ret) = ExactSign

\* C3 for points on which no product of coordinates underflows: the sign
\* of adaptive::incircle is that of exact::incircle and the sign of
\* adaptive::insphere that of exact::insphere, at whichever stage
C3_AdaptiveAgreesNoUnderflow ==
  (pred \in {"incircle", "insphere"} /\ Returned /\ NoUnderflow(pred, pts))
    => Sign(ret) = ExactSign

\* five points not on a common sphere, decided by the last stage of insphere
C3_Witness ==
  /\ pred = "insphere" /\ Returned /\ pc = "exact"
  /\ NoUnderflow(pred, pts) /\ Sign(ret) = -1

\* C4: each exact evaluator returns a value with the sign of the determinant
\* in real arithmetic, for all finite points: zero exactly for collinear,
\* coplanar, cocircular or cospherical points
C4_ExactSign ==
  (pc = "reference" /\ Returned) => Sign(ret) = RealSign(pred, pts)

\* C4 for points on which no product of coordinates underflows: each exact
\* evaluator returns a value with the sign of the real determinant, zero
\* exactly for degenerate points
C4_ExactSignNoUnderflow ==
  (pc = "reference" /\ Returned /\ NoUnderflow(pred, pts))
    => Sign(ret) = RealSign(pred, pts)

\* five distinct points of one plane, for which exact::insphere returns zero
C4_Witness ==
  /\ pc = "reference" /\ Returned /\ pred = "insphere"
  /\ NoUnderflow(pred, pts)
  /\ \A i, j \in 1..5 : i # j => pts[i] # pts[j]
  /\ IsZero(ret)

\* C5: for every predicate and every two argument positions, the call with
\* the two points swapped returns a value of the opposite sign (zero for
\* zero), for all finite points
C5_SwapFlipsSign ==
  Returned =>
    \A i, j \in 1..Arity[pred] :
      i < j => Sign(Run(pred, Swapped(pts, i, j)).det) = -Sign(ret)

\* the factors 2^k the arguments are multiplied by
Shifts == (-MaxShift..MaxShift) \ {0}

\* C6: for every predicate, when all coordinates of all points are multiplied
\* by the same power of two and nothing underflows, the adaptive call
\* returns a value of the same sign, and returns at the same stage
C6_ScaleInvariant ==
  (Returned /\ NoUnderflow(pred, pts)) =>
    \A k \in Shifts :
      NoUnderflow(pred, Scaled(pts, k)) =>
        LET r == Run(pred, Scaled(pts, k))
        IN  Sign(r.det) = Sign(ret) /\ r.stage = pc

\* a call of incircle that returns a negative value at its third stage, as
\* does the call on the arguments times 2^MaxShift
C6_Witness ==
  /\ pred = "incircle" /\ Returned /\ pc = "tail" /\ Sign(ret) = -1
  /\ NoUnderflow(pred, pts)
  /\ Run(pred, Scaled(pts, MaxShift)).stage = "tail"

\* C7: every static member a call reads holds its final value when the
\* call is made, every derived coefficient is computed when epsilon has
\* been initialised, and an initialised member is never written again,
\* in whatever order the initialisations and the first call occur
C7_FinalBeforeRead ==
  [][/\ (pc = "idle" /\ pc' # "idle")
          => \A n \in CallReads(pred) : K[n] = FinalK[n]
     /\ \A n \in StaticNames \ {"epsilon", "Splitter"} :
          (n \notin initd /\ n \in initd') => "epsilon" \in initd
     /\ \A n \in initd : K'[n] = K[n]]_vars

\* C8: two calls of a predicate on the same points return the same value,
\* bit for bit, whatever calls were made in between and whatever they left
\* in memory; and no call writes the static members
C8_Deterministic ==
  /\ K = FinalK
  /\ \A i, j \in 1..Len(hist) :
       (hist[i].pred = hist[j].pred /\ hist[i].pts = hist[j].pts)
         => hist[i].ret = hist[j].ret

\* orient2d called twice on the same collinear points, with another call in
\* between, the two calls running on different stale memory
C8_Witness ==
  /\ Len(hist) = 3
  /\ hist[1].pred = "orient2d" /\ hist[3].pred = "orient2d"
  /\ hist[1].pts = hist[3].pts /\ hist[2].pred # "orient2d"
  /\ hist[1].seen # hist[3].seen
  /\ IsZero(hist[3].ret) /\ pc = "exact"

\* the order of the stages
StageOrder == {<<"fast", "expansion">>, <<"expansion", "tail">>, <<"tail", "exact">>}

\* C9: a call of an adaptive predicate that has not returned can take a
\* step; a step is taken from the stage the call is at, returns exactly when
\* the stage's test passes and otherwise leads to the next stage in the
\* order fast, expansion, tail, exact; and the step of the exact stage
\* always returns: every call returns a value after at most four steps,
\* at the first stage whose test passes
C9_StagesInOrder ==
  /\ [](~Returned =>
          /\ pc \in DOMAIN Blocks[pred] \ {"reference"}
          /\ Call(Blocks[pred][pc], <<pts, loc>>).done \in BOOLEAN
          /\ pc = "exact" => Call(Blocks[pred][pc], <<pts, loc>>).done)
  /\ [][/\ ~Returned
        /\ IF loc'.done THEN Returned' /\ pc' = pc
           ELSE ~Returned' /\ <<pc, pc'>> \in StageOrder
        /\ pc = "exact" => Returned']_vars

\* a call of orient3d that went through all four stages and returned
C9_Witness == pred = "orient3d" /\ Returned /\ pc = "exact" /\ Sign(ret) = -1

\* the exact value of the sum of the values vs, in units of 2^g
SumUnits(vs, g) ==
  LET u == [i \in 1..Len(vs) |-> Units(vs[i], g)]
  IN  IF Len(vs) = 2 THEN u[1] + u[2] ELSE u[1] + u[2] + u[3]

\* the least exponent among the nonzero values vs
LeastExp(vs) ==
  LET es == {vs[i][2] : i \in {n \in 1..Len(vs) : ~IsZero(vs[n])}}
  IN  IF es = {} THEN 0 ELSE CHOOSE e \in es : \A f \in es : e <= f

\* C10: with x the rounded a + b, PlusTail(a, b, x) is the t with
\* a + b = x + t in real arithmetic, and with x the rounded a - b,
\* MinusTail(a, b, x) is the t with a - b = x + t, whichever of a and b
\* is the larger in magnitude
C10_TailsExact ==
  LET a == pts[1]
      b == IF pc = "MinusTail" THEN Neg(pts[2]) ELSE pts[2]
      g == LeastExp(<<a, b, loc.x, ret>>)
  IN  pc \in {"PlusTail", "MinusTail"}
        => SumUnits(<<a, b>>, g) = SumUnits(<<loc.x, ret>>, g)

\* a sum with the smaller operand first and a roundoff error that is not zero
C10_Witness ==
  /\ pc = "PlusTail"
  /\ Lt(Abs(pts[1]), Abs(pts[2]))
  /\ ~IsZero(ret)

\* the value of x, which has no fractional part, as an integer
IntegerOf(x) == Units(x, 0)

\* C11: with p the rounded a * b, the tail computed by DekkersProduct on the
\* split operands in the build without fma and the tail fma(a, b, -p) in
\* the build with it are the same number, the rounding error a * b - p (a
\* zero tail may differ in its sign bit); and Mult, TwoTwoDiff and
\* ScaleExpansion return the same expansions, component for component, in
\* the two builds
C11_FmaEquivalent ==
  pc = "done" =>
    /\ pred = "MultTail" =>
         IntegerOf(pts[1]) * IntegerOf(pts[2])
           = IntegerOf(loc.x) + IntegerOf(ret)
    /\ hist # <<>> =>
         /\ hist[1].use_fma # use_fma
         /\ hist[1].loc = loc
         /\ IF pred = "MultTail"
            THEN IntegerOf(hist[1].ret) = IntegerOf(ret)
            ELSE hist[1].ret = ret

\* a product with a rounding error that is not zero, computed in the build
\* without fma and then in the build with it
C11_Witness ==
  /\ pc = "done" /\ pred = "MultTail"
  /\ hist # <<>> /\ ~hist[1].use_fma /\ use_fma
  /\ ~IsZero(ret)

\* the value of x, which has no fractional part, as a pair <<h, l>>
BigOf(x) ==
  IF IsZero(x) THEN <<0, 0>>
  ELSE IF x[2] >= 15 THEN <<x[1] * Pow2(x[2] - 15), 0>>
  ELSE BigOfInt(x[1] * Pow2(x[2]))

\* the exact value of the expansion e, whose components have no fractional
\* part, as a pair <<h, l>>
ExpansionValue(e) ==
  LET S[i \in 0..Len(e)] ==
        IF i = 0 THEN <<0, 0>> ELSE BigAdd(S[i - 1], BigOf(e[i]))
  IN  S[Len(e)]

\* C12: TwoTwoDiffZeroCheck(ax, by, ay, bx) returns an expansion whose value
\* is ax * by - ay * bx, as TwoTwoDiff(ax, by, ay, bx) does, whether ax and
\* ay are both zero, only ax, only ay, or neither
C12_ZeroCheckValue ==
  (pc = "done" /\ pred \in {"TwoTwoDiff", "TwoTwoDiffZeroCheck"}) =>
    ExpansionValue(ret)
      = BigOfInt(IntegerOf(pts[1]) * IntegerOf(pts[2])
                 - IntegerOf(pts[3]) * IntegerOf(pts[4]))

\* the same, in the branches other than "only ax is zero"
C12_ZeroCheckValueOtherBranches ==
  (pc = "done" /\ pred \in {"TwoTwoDiff", "TwoTwoDiffZeroCheck"}
     /\ ~(pred = "TwoTwoDiffZeroCheck" /\ IsZero(pts[1]) /\ ~IsZero(pts[3]))) =>
    ExpansionValue(ret)
      = BigOfInt(IntegerOf(pts[1]) * IntegerOf(pts[2])
                 - IntegerOf(pts[3]) * IntegerOf(pts[4]))

\* the position of the highest bit of the nonzero value x
TopBit(x) == x[2] + BitLen(IAbs(x[1])) - 1

\* the expansion e is well-formed: no component is zero, and each component
\* lies wholly above the one before it (they do not overlap, and so increase
\* in magnitude)
WellFormed(e) ==
  /\ \A i \in 1..Len(e) : ~IsZero(e[i])
  /\ \A i \in 1..(Len(e) - 1) : e[i + 1][2] > TopBit(e[i])

\* C13: for well-formed expansions E and F, empty ones included, E + F has
\* exactly the value of E plus the value of F and at most |E| + |F|
\* components, and E - F has exactly the value of E minus the value of F
C13_SumExact ==
  (pc \in {"operator+", "operator-"}
     /\ WellFormed(pts[1]) /\ WellFormed(pts[2])) =>
    /\ ExpansionValue(ret)
         = BigAdd(ExpansionValue(pts[1]),
                  BigMulInt(ExpansionValue(pts[2]),
                            IF pc = "operator+" THEN 1 ELSE -1))
    /\ Len(ret) <= Len(pts[1]) + Len(pts[2])

\* a sum of a four-component and a two-component expansion whose value is
\* not zero, and a sum with an empty expansion
C13_Witness ==
  /\ pc = "operator+"
  /\ WellFormed(pts[1]) /\ WellFormed(pts[2])
  /\ Len(pts[1]) = 4 /\ Len(pts[2]) = 2
  /\ Len(ret) >= 2

\* the sign of the value of the expansion e
ExpansionSign(e) == BigSign(ExpansionValue(e))

\* mostSignificant() of the expansion e has the sign of the value of e
SignOfMostSignificant(e) ==
  Sign(mostSignificant(Stored(e, Len(e) + 1), Len(e))) = ExpansionSign(e)

C16_FallbackIsExact ==
  (Returned /\ pc = "exact") => ret = Call(Blocks[pred].reference, pts)

\* C16, for each predicate as its last stage is written: incircle and
\* insphere return the value of their exact evaluator; orient2d returns the
\* most significant component of an expansion of its own, of the same sign
\* as the value of exact::orient2d
C16_FallbackByPredicate ==
  (Returned /\ pc = "exact") =>
    /\ pred \in {"incircle", "insphere"}
         => ret = Call(Blocks[pred].reference, pts)
    /\ pred = "orient2d" => Sign(ret) = ExactSign

\* a call of insphere that returns a nonzero value from its last stage
C16_Witness ==
  /\ pred = "insphere" /\ Returned /\ pc = "exact"
  /\ ~IsZero(ret)

\* the fast stage has been executed and no later one
AfterFast ==
  \/ pc = "fast" /\ Returned
  \/ pc = "expansion" /\ ~Returned

\* the first two products of the fast stage, from the differences in loc
LeadingProducts ==
  CASE pred = "orient2d" -> <<Mul(loc.acx, loc.bcy), Mul(loc.acy, loc.bcx)>>
    [] pred = "insphere" -> <<Mul(loc.aex, loc.bey), Mul(loc.bex, loc.aey)>>
    [] OTHER -> <<Mul(loc.bdx, loc.cdy), Mul(loc.cdx, loc.bdy)>>

\* the two leading products have different signs, or one of them is zero
LeadingDisagree ==
  \/ SignBit(LeadingProducts[1]) # SignBit(LeadingProducts[2])
  \/ IsZero(LeadingProducts[1]) \/ IsZero(LeadingProducts[2])

\* the coefficient of the error bound of the fast stage
FastBound ==
  CASE pred = "orient2d" -> K.ccwerrboundA
    [] pred = "orient3d" -> K.o3derrboundA
    [] pred = "incircle" -> K.iccerrboundA
    [] pred = "insphere" -> K.isperrboundA

\* C17: in the fast stage of every adaptive predicate, when the two leading
\* products have different signs or one of them is zero, the call returns
\* the floating-point determinant at once and enters no later stage
C17_EarlyReturn ==
  (AfterFast /\ LeadingDisagree) =>
    pc = "fast" /\ Returned /\ ret = loc.det

\* C17, for the fast stages as they are written: orient2d returns the
\* determinant at once when its two products have different signs or one is
\* zero; orient3d, incircle and insphere make no such test and return from
\* the fast stage exactly when |det| >= errboundA * permanent
C17_EarlyReturnOrient2d ==
  AfterFast =>
    /\ (pred = "orient2d" /\ LeadingDisagree) =>
         pc = "fast" /\ Returned /\ ret = loc.det
    /\ pred # "orient2d" =>
         /\ Returned <=> Ge(Abs(loc.det), Abs(Mul(FastBound, loc.permanent)))
         /\ Returned => ret = loc.det

\* a call of orient2d, on points that are not collinear, that returns from
\* the fast stage with one of the two products zero
C17_Witness ==
  /\ pred = "orient2d" /\ pc = "fast" /\ Returned
  /\ IsZero(LeadingProducts[1]) /\ ~IsZero(LeadingProducts[2])
  /\ ret = loc.det /\ ~IsZero(ret)

Written == loc.hIndex..(loc'.hIndex - 1)

\* C19: in ExpansionSum, for n, m >= 1, every write h[hIndex] is at an index
\* below the index g of the next merged component still to be read, the
\* components from g on are as merged, and the size returned is at most
\* n + m; in ScaleExpansion every write is at an index below 2 * n
C19_WritesInBounds ==
  [][/\ (pred = "ExpansionSum" /\ pc = "loop") =>
          /\ \A i \in Written : i < loc'.g
          /\ \A i \in (loc'.g + 1)..Len(loc.h) : loc'.h[i] = loc.h[i]
          /\ Len(loc'.h) = Len(pts[1]) + Len(pts[2])
          /\ pc' = "returned" => ret' <= Len(pts[1]) + Len(pts[2])
     /\ (pred = "ScaleExpansion" /\ pc = "loop") =>
          /\ \A i \in Written : i < 2 * Len(pts[1])
          /\ Len(loc'.h) = 2 * Len(pts[1])
     /\ pc = "entry" =>
          /\ loc'.hIndex <= 1
          /\ pred = "ExpansionSum" =>
               /\ loc'.g = 2
               /\ SubSeq(loc'.h, 2, Len(loc'.h))
                    = SubSeq(Merge(pts[1], pts[2]), 2, Len(loc'.h))]_vars

\* a sum of expansions of four and two components in which every step of
\* the loop wrote a component, and which returned the full size
C19_Witness ==
  /\ pred = "ExpansionSum" /\ pc = "returned"
  /\ Len(pts[1]) = 4 /\ Len(pts[2]) = 2
  /\ ret >= 5

==========================================================================
